---- MODULE Spec2Model ----
(***************************************************************************)
(* Verification model of the StarTrek rocket physics core                  *)
(* (src/Physics/rocket_physics.c, rocket_physics.h) and of the network     *)
(* client and rocket registry of the visualizer (src/Graphic).             *)
(*                                                                         *)
(* Numbers.  The code computes in IEEE doubles.  The model computes in     *)
(* fixed point: a double d is the integer d * SCALE, products and          *)
(* quotients are rounded to the nearest grid value, and sqrt, exp, sin and *)
(* cos are computed by integer algorithms on the grid.  TLC integers are   *)
(* 32 bits wide, so the Earth constants of rocket_physics.h are replaced   *)
(* by a scale model (radius 50.0, atmosphere 5.0, G*M = 1000.0, ...): the  *)
(* comparisons the code makes (<, <=, >, >=) and the order of its          *)
(* assignments are kept exactly, the magnitudes are not.  The thresholds   *)
(* 1e-6, 1e-10 and 0.01 lie strictly between the grid values 0 and         *)
(* 1/SCALE, so "m < 1e-6" is "m <= 0" on the grid and "m > 1e-6" is        *)
(* "m > 0".                                                                *)
(***************************************************************************)
EXTENDS Integers, Sequences, FiniteSets, TLC

\* one double is the integer value * SCALE
SCALE == 10

Abs(x) == IF x < 0 THEN -x ELSE x

\* n / d rounded to the nearest integer, ties away from zero (d # 0)
RoundDiv(n, d) ==
    LET q == (2 * Abs(n) + Abs(d)) \div (2 * Abs(d))
    IN  IF (n < 0) = (d < 0) THEN q ELSE -q

\* a * b and a / b of two doubles
FMul(a, b) == RoundDiv(a * b, SCALE)
FDiv(a, b) == RoundDiv(a * SCALE, b)

RECURSIVE SqrtIter(_, _)
SqrtIter(n, g) ==
    LET h == (g + n \div g) \div 2
    IN  IF h >= g THEN g ELSE SqrtIter(n, h)

\* integer square root of n >= 0, rounded to nearest
ISqrt(n) ==
    IF n <= 0 THEN 0
    ELSE LET r == SqrtIter(n, n)
         IN  IF n - r * r > r THEN r + 1 ELSE r

\* sqrt(a) of a double
FSqrt(a) == ISqrt(a * SCALE)

\* exp(a) of a double: 1 + a + a^2/2 + a^3/6 for a >= 0, its reciprocal for a < 0
ExpPos(a) ==
    LET a2 == FMul(a, a)
        a3 == FMul(a2, a)
    IN  SCALE + a + RoundDiv(a2, 2) + RoundDiv(a3, 6)

FExp(a) == IF a >= 0 THEN ExpPos(a) ELSE FDiv(SCALE, ExpPos(-a))

\* sin of an angle of d degrees, 0 <= d <= 180 (Bhaskara's rational form)
SinHalfTurn(d) ==
    LET p == d * (180 * SCALE - d)
    IN  RoundDiv(SCALE * 4 * p, 40500 * SCALE * SCALE - p)

\* sin(deg * M_PI / 180.0) and cos(deg * M_PI / 180.0)
SinDeg(deg) ==
    LET d == deg % (360 * SCALE)
    IN  IF d <= 180 * SCALE THEN SinHalfTurn(d) ELSE -SinHalfTurn(d - 180 * SCALE)

CosDeg(deg) == SinDeg(deg + 90 * SCALE)

-----------------------------------------------------------------------------
(* Constants of rocket_physics.h, in the scale model's units *)

EARTH_RADIUS == 500
EARTH_ATMOSPHERE == 50
EARTH_SCALE_HEIGHT == 20
\* the code uses G_CONSTANT only in the product G * mass: G = 1.0, M = 1000.0
G_CONSTANT == 10
EARTH_MASS == 10000

-----------------------------------------------------------------------------
(* Vector algebra *)

Vec(x, y, z) == [x |-> x, y |-> y, z |-> z]
ZeroVec == Vec(0, 0, 0)

vector_add(a, b) == Vec(a.x + b.x, a.y + b.y, a.z + b.z)
vector_sub(a, b) == Vec(a.x - b.x, a.y - b.y, a.z - b.z)
vector_scale(v, scalar) == Vec(FMul(v.x, scalar), FMul(v.y, scalar), FMul(v.z, scalar))
vector_magnitude(v) == ISqrt(v.x * v.x + v.y * v.y + v.z * v.z)

\* vector_scale(v, 1.0 / d): the quotient is rounded once, the reciprocal 1.0 / d
\* is not formed on the grid, where it would lose its digits
vector_scale_inv(v, d) == Vec(FDiv(v.x, d), FDiv(v.y, d), FDiv(v.z, d))

vector_normalize(v) ==
    LET mag == vector_magnitude(v)
    IN  IF mag <= 0 THEN ZeroVec
        ELSE vector_scale_inv(v, mag)

vector_dot(a, b) == FMul(a.x, b.x) + FMul(a.y, b.y) + FMul(a.z, b.z)

vector_cross(a, b) ==
    Vec(FMul(a.y, b.z) - FMul(a.z, b.y),
        FMul(a.z, b.x) - FMul(a.x, b.z),
        FMul(a.x, b.y) - FMul(a.y, b.x))

-----------------------------------------------------------------------------
(* Body and environment model *)

Engine(thrust, fuel_consumption, is_active) ==
    [thrust |-> thrust, fuel_consumption |-> fuel_consumption, is_active |-> is_active]

\* a ControlCommand pointer: is_null is the NULL command, throttle_null the NULL
\* engine_throttle array; engine_count never exceeds the array's length
Command(throttles, count, pitch, yaw, roll) ==
    [is_null |-> FALSE, throttle_null |-> FALSE, engine_throttle |-> throttles,
     engine_count |-> count, pitch |-> pitch, yaw |-> yaw, roll |-> roll]

NullCommand ==
    [is_null |-> TRUE, throttle_null |-> TRUE, engine_throttle |-> << >>,
     engine_count |-> 0, pitch |-> 0, yaw |-> 0, roll |-> 0]

NullThrottleCommand(count, pitch) ==
    [is_null |-> FALSE, throttle_null |-> TRUE, engine_throttle |-> << >>,
     engine_count |-> count, pitch |-> pitch, yaw |-> 0, roll |-> 0]

planet_create(radius, mass, atmosphere_height, surface_pressure, scale_height) ==
    [radius |-> radius, mass |-> mass, atmosphere_height |-> atmosphere_height,
     surface_pressure |-> surface_pressure, scale_height |-> scale_height]

planet_earth_default ==
    [radius |-> EARTH_RADIUS, mass |-> EARTH_MASS,
     atmosphere_height |-> EARTH_ATMOSPHERE, surface_pressure |-> SCALE,
     scale_height |-> EARTH_SCALE_HEIGHT]

rocket_init(config, initial_position) ==
    [position |-> initial_position,
     velocity |-> ZeroVec,
     acceleration |-> ZeroVec,
     mass_current |-> config.mass_empty + config.mass_fuel,
     fuel_remaining |-> config.mass_fuel,
     altitude |-> vector_magnitude(initial_position) - EARTH_RADIUS,
     speed |-> 0,
     in_orbit |-> FALSE,
     landed |-> FALSE,
     crashed |-> FALSE,
     time |-> 0]

-----------------------------------------------------------------------------
(* Force model *)

calculate_gravity(position) ==
    LET distance == vector_magnitude(position)
    IN  IF distance < EARTH_RADIUS THEN ZeroVec
        ELSE LET gravity_magnitude ==
                     FDiv(FMul(G_CONSTANT, EARTH_MASS), FMul(distance, distance))
                 direction == vector_normalize(position)
             IN  vector_scale(direction, -gravity_magnitude)

\* rho_0 = 1.225 and the factor 0.5 of the drag law, on the grid
RHO_0 == 12
HALF == 5

calculate_drag(state, config) ==
    IF state.altitude > EARTH_ATMOSPHERE THEN ZeroVec
    ELSE LET rho == FMul(RHO_0, FExp(FDiv(-state.altitude, EARTH_SCALE_HEIGHT)))
             velocity_magnitude == vector_magnitude(state.velocity)
         IN  IF velocity_magnitude <= 0 THEN ZeroVec
             ELSE LET drag_force ==
                          FMul(FMul(FMul(FMul(FMul(HALF, rho), velocity_magnitude),
                                         velocity_magnitude),
                                    config.drag_coefficient),
                               config.cross_section)
                      velocity_direction == vector_normalize(state.velocity)
                  IN  vector_scale(velocity_direction, -drag_force)

Min(a, b) == IF a < b THEN a ELSE b

\* mutant: the loop leaves out the last engine that both counts allow
EngineLoopBound_stops_early(config, command) ==
    LET n == Min(config.engine_count, command.engine_count)
    IN  IF n > 0 THEN n - 1 ELSE 0

\* the loop bound "i < config->engine_count && i < command->engine_count"
EngineLoopBound(config, command) == Min(config.engine_count, command.engine_count)

RECURSIVE ThrustSum(_, _, _)
ThrustSum(config, command, n) ==
    IF n = 0 THEN 0
    ELSE ThrustSum(config, command, n - 1)
         + (IF config.engines[n].is_active
            THEN FMul(config.engines[n].thrust, command.engine_throttle[n])
            ELSE 0)

\* mutant: the yaw angle is added to the pitch angle
calculate_thrust_yawed(config, command, position) ==
    IF command.is_null \/ command.throttle_null THEN ZeroVec
    ELSE LET thrust_magnitude ==
                 ThrustSum(config, command, EngineLoopBound(config, command))
         IN  IF thrust_magnitude <= 0 THEN ZeroVec
             ELSE LET radial_up == vector_normalize(position)
                      z_axis == Vec(0, 0, SCALE)
                      x_axis == Vec(SCALE, 0, 0)
                      east_z == vector_cross(radial_up, z_axis)
                      east == IF vector_magnitude(east_z) <= 0
                              THEN vector_normalize(vector_cross(radial_up, x_axis))
                              ELSE vector_normalize(east_z)
                      c == CosDeg(command.pitch + command.yaw)
                      s == SinDeg(command.pitch + command.yaw)
                      thrust_dir ==
                          Vec(FMul(radial_up.x, c) + FMul(east.x, s),
                              FMul(radial_up.y, c) + FMul(east.y, s),
                              FMul(radial_up.z, c) + FMul(east.z, s))
                  IN  vector_scale(thrust_dir, thrust_magnitude)

\* mutant: the east axis is not rebuilt from the X axis on the polar axis
calculate_thrust_no_fallback(config, command, position) ==
    IF command.is_null \/ command.throttle_null THEN ZeroVec
    ELSE LET thrust_magnitude ==
                 ThrustSum(config, command, EngineLoopBound(config, command))
         IN  IF thrust_magnitude <= 0 THEN ZeroVec
             ELSE LET radial_up == vector_normalize(position)
                      z_axis == Vec(0, 0, SCALE)
                      east == vector_normalize(vector_cross(radial_up, z_axis))
                      c == CosDeg(command.pitch)
                      s == SinDeg(command.pitch)
                      thrust_dir ==
                          Vec(FMul(radial_up.x, c) + FMul(east.x, s),
                              FMul(radial_up.y, c) + FMul(east.y, s),
                              FMul(radial_up.z, c) + FMul(east.z, s))
                  IN  vector_scale(thrust_dir, thrust_magnitude)

calculate_thrust(config, command, position) ==
    IF command.is_null \/ command.throttle_null THEN ZeroVec
    ELSE LET thrust_magnitude ==
                 ThrustSum(config, command, EngineLoopBound(config, command))
         IN  IF thrust_magnitude <= 0 THEN ZeroVec
             ELSE LET radial_up == vector_normalize(position)
                      z_axis == Vec(0, 0, SCALE)
                      x_axis == Vec(SCALE, 0, 0)
                      east_z == vector_cross(radial_up, z_axis)
                      east == IF vector_magnitude(east_z) <= 0
                              THEN vector_normalize(vector_cross(radial_up, x_axis))
                              ELSE vector_normalize(east_z)
                      c == CosDeg(command.pitch)
                      s == SinDeg(command.pitch)
                      thrust_dir ==
                          Vec(FMul(radial_up.x, c) + FMul(east.x, s),
                              FMul(radial_up.y, c) + FMul(east.y, s),
                              FMul(radial_up.z, c) + FMul(east.z, s))
                  IN  vector_scale(thrust_dir, thrust_magnitude)

RECURSIVE ConsumptionSum(_, _, _, _)
ConsumptionSum(config, command, delta_time, n) ==
    IF n = 0 THEN 0
    ELSE ConsumptionSum(config, command, delta_time, n - 1)
         + (IF config.engines[n].is_active
            THEN FMul(FMul(config.engines[n].fuel_consumption,
                           command.engine_throttle[n]), delta_time)
            ELSE 0)

calculate_fuel_consumption(config, command, delta_time) ==
    IF command.is_null \/ command.throttle_null THEN 0
    ELSE ConsumptionSum(config, command, delta_time, EngineLoopBound(config, command))

check_ground_collision(state) == vector_magnitude(state.position) <= EARTH_RADIUS

check_orbital_stability(state) ==
    IF state.altitude < EARTH_ATMOSPHERE THEN FALSE
    ELSE LET distance == vector_magnitude(state.position)
             orbital_speed == FSqrt(FDiv(FMul(G_CONSTANT, EARTH_MASS), distance))
             speed_ratio == FDiv(state.speed, orbital_speed)
         IN  speed_ratio >= 9 /\ speed_ratio <= 11

orbital_velocity_at_altitude(planet, altitude) ==
    LET r == planet.radius + altitude
    IN  FSqrt(FDiv(FMul(G_CONSTANT, planet.mass), r))

\* mutant: the stability verdict looks at the periapsis only
predict_orbit_periapsis_only(state, planet) ==
    LET r == vector_magnitude(state.position)
        v == state.speed
        mu == FMul(G_CONSTANT, planet.mass)
        specific_energy == FDiv(FMul(v, v), 2 * SCALE) - FDiv(mu, r)
        h == vector_magnitude(vector_cross(state.position, state.velocity))
        a_inf == Abs(specific_energy) <= 0
        a == IF a_inf THEN 0 ELSE FDiv(-mu, FMul(2 * SCALE, specific_energy))
        e_sq == IF a_inf THEN SCALE ELSE SCALE - FDiv(FMul(h, h), FMul(mu, a))
        eccentricity == IF a_inf THEN SCALE
                        ELSE FSqrt(IF e_sq < 0 THEN 0 ELSE e_sq)
        closed == eccentricity < SCALE /\ (a_inf \/ a > 0)
        apoapsis == IF closed THEN FMul(a, SCALE + eccentricity) - planet.radius
                    ELSE -SCALE
        periapsis == IF closed THEN FMul(a, SCALE - eccentricity) - planet.radius
                     ELSE state.altitude
    IN  [apoapsis |-> apoapsis,
         periapsis |-> periapsis,
         eccentricity |-> eccentricity,
         orbital_velocity |-> v,
         required_velocity |-> orbital_velocity_at_altitude(planet, state.altitude),
         is_stable |-> periapsis > planet.atmosphere_height]

\* a_inf stands for a = INFINITY
predict_orbit(state, planet) ==
    LET r == vector_magnitude(state.position)
        v == state.speed
        mu == FMul(G_CONSTANT, planet.mass)
        specific_energy == FDiv(FMul(v, v), 2 * SCALE) - FDiv(mu, r)
        h == vector_magnitude(vector_cross(state.position, state.velocity))
        a_inf == Abs(specific_energy) <= 0
        a == IF a_inf THEN 0 ELSE FDiv(-mu, FMul(2 * SCALE, specific_energy))
        e_sq == IF a_inf THEN SCALE ELSE SCALE - FDiv(FMul(h, h), FMul(mu, a))
        eccentricity == IF a_inf THEN SCALE
                        ELSE FSqrt(IF e_sq < 0 THEN 0 ELSE e_sq)
        closed == eccentricity < SCALE /\ (a_inf \/ a > 0)
        apoapsis == IF closed THEN FMul(a, SCALE + eccentricity) - planet.radius
                    ELSE -SCALE
        periapsis == IF closed THEN FMul(a, SCALE - eccentricity) - planet.radius
                     ELSE state.altitude
    IN  [apoapsis |-> apoapsis,
         periapsis |-> periapsis,
         eccentricity |-> eccentricity,
         orbital_velocity |-> v,
         required_velocity |-> orbital_velocity_at_altitude(planet, state.altitude),
         is_stable |-> periapsis > planet.atmosphere_height /\ eccentricity < SCALE]

-----------------------------------------------------------------------------
(* Ascent guidance *)

Max(a, b) == IF a > b THEN a ELSE b

\* the floor 1000.0 of turn_start_alt, in the scale model's units
TURN_START_MIN == 10

gravity_turn_for_orbit(planet, target_orbit_altitude) ==
    LET turn_start_alt == Max(RoundDiv(target_orbit_altitude, 100), TURN_START_MIN)
        turn_end_alt == RoundDiv(target_orbit_altitude * 7, 10)
        half_atmosphere == FMul(planet.atmosphere_height, HALF)
    IN  [target_altitude |-> target_orbit_altitude,
         turn_start_alt |-> turn_start_alt,
         turn_end_alt |-> IF turn_end_alt < half_atmosphere
                          THEN half_atmosphere ELSE turn_end_alt,
         auto_pitch |-> TRUE]

calculate_optimal_pitch(state, planet, gt_config) ==
    LET alt == state.altitude
        start == gt_config.turn_start_alt
        end == gt_config.turn_end_alt
    IN  IF ~gt_config.auto_pitch THEN 0
        ELSE IF alt < start THEN 0
        ELSE IF alt >= end THEN 90 * SCALE
        ELSE LET progress == FDiv(alt - start, end - start)
                 smooth_progress == SinDeg(FMul(progress, 90 * SCALE))
             IN  FMul(smooth_progress, 90 * SCALE)

-----------------------------------------------------------------------------
(* Integrator *)

\* mutant: the guard forgets the crashed flag
IsTerminal_landed_only(state) == state.landed

\* the guard that opens both step functions
IsTerminal(state) == state.landed \/ state.crashed

\* acceleration = total_force / mass_current, zero for a massless vehicle
Accelerate(state, total_force) ==
    [state EXCEPT !.acceleration =
        IF state.mass_current > 0
        THEN vector_scale_inv(total_force, state.mass_current)
        ELSE ZeroVec]

\* mutant: the position is advanced with the velocity from before the step
Integrate_old_velocity(state, delta_time) ==
    LET velocity == vector_add(state.velocity,
                               vector_scale(state.acceleration, delta_time))
        position == vector_add(state.position,
                               vector_scale(state.velocity, delta_time))
    IN  [state EXCEPT !.velocity = velocity,
                      !.speed = vector_magnitude(velocity),
                      !.position = position]

\* the Euler step: velocity, speed, then position from the new velocity
Integrate(state, delta_time) ==
    LET velocity == vector_add(state.velocity,
                               vector_scale(state.acceleration, delta_time))
        position == vector_add(state.position, vector_scale(velocity, delta_time))
    IN  [state EXCEPT !.velocity = velocity,
                      !.speed = vector_magnitude(velocity),
                      !.position = position]

\* mutant: the mass is decremented by the fuel consumed instead of recomputed
ConsumeFuel_mass_decrement(state, config, command, delta_time) ==
    LET fuel_consumed == calculate_fuel_consumption(config, command, delta_time)
        reduced == state.fuel_remaining - fuel_consumed
        fuel_remaining == IF reduced < 0 THEN 0 ELSE reduced
    IN  [state EXCEPT !.fuel_remaining = fuel_remaining,
                      !.mass_current = @ - fuel_consumed]

\* fuel is reduced and clamped at zero, then the mass is recomputed
ConsumeFuel(state, config, command, delta_time) ==
    LET fuel_consumed == calculate_fuel_consumption(config, command, delta_time)
        reduced == state.fuel_remaining - fuel_consumed
        fuel_remaining == IF reduced < 0 THEN 0 ELSE reduced
    IN  [state EXCEPT !.fuel_remaining = fuel_remaining,
                      !.mass_current = config.mass_empty + fuel_remaining]

\* mutant: the comparison with 5.0 is inverted
GroundContact_inverted(state) ==
    [state EXCEPT !.landed = IF state.speed > 5 * SCALE THEN TRUE ELSE @,
                  !.crashed = IF state.speed > 5 * SCALE THEN @ ELSE TRUE,
                  !.velocity = ZeroVec,
                  !.acceleration = ZeroVec]

\* mutant: the else is lost, crashed is set on every ground contact
GroundContact_both(state) ==
    [state EXCEPT !.landed = IF state.speed < 5 * SCALE THEN TRUE ELSE @,
                  !.crashed = TRUE,
                  !.velocity = ZeroVec,
                  !.acceleration = ZeroVec]

\* mutant: the acceleration is not zeroed
GroundContact_keeps_acceleration(state) ==
    [state EXCEPT !.landed = IF state.speed < 5 * SCALE THEN TRUE ELSE @,
                  !.crashed = IF state.speed < 5 * SCALE THEN @ ELSE TRUE,
                  !.velocity = ZeroVec]

\* mutant: a speed of exactly 5.0 still counts as a landing
GroundContact_inclusive(state) ==
    [state EXCEPT !.landed = IF state.speed <= 5 * SCALE THEN TRUE ELSE @,
                  !.crashed = IF state.speed <= 5 * SCALE THEN @ ELSE TRUE,
                  !.velocity = ZeroVec,
                  !.acceleration = ZeroVec]

\* the body of the ground-contact branch: classify, zero the motion, return
GroundContact(state) ==
    [state EXCEPT !.landed = IF state.speed < 5 * SCALE THEN TRUE ELSE @,
                  !.crashed = IF state.speed < 5 * SCALE THEN @ ELSE TRUE,
                  !.velocity = ZeroVec,
                  !.acceleration = ZeroVec]

\* mutant: the fuel is consumed first, so that the acceleration is computed with
\* the mass after the step
rocket_update_fuel_first(state, config, command, delta_time) ==
    IF IsTerminal(state) THEN state
    ELSE LET gravity_force == calculate_gravity(state.position)
             drag_force == calculate_drag(state, config)
             thrust_force == calculate_thrust(config, command, state.position)
             total_force == vector_add(vector_add(gravity_force, drag_force),
                                       thrust_force)
             s1 == ConsumeFuel(state, config, command, delta_time)
             s2 == Accelerate(s1, total_force)
             s3 == Integrate(s2, delta_time)
             s4 == [s3 EXCEPT !.altitude =
                                 vector_magnitude(s3.position) - EARTH_RADIUS]
         IN  IF check_ground_collision(s4) THEN GroundContact(s4)
             ELSE [s4 EXCEPT !.in_orbit = check_orbital_stability(s4),
                             !.time = @ + delta_time]

\* mutant: the engines give no thrust once the tank is empty
rocket_update_dry_engines(state, config, command, delta_time) ==
    IF IsTerminal(state) THEN state
    ELSE LET gravity_force == calculate_gravity(state.position)
             drag_force == calculate_drag(state, config)
             thrust_force == IF state.fuel_remaining <= 0 THEN ZeroVec
                             ELSE calculate_thrust(config, command, state.position)
             total_force == vector_add(vector_add(gravity_force, drag_force),
                                       thrust_force)
             s1 == Accelerate(state, total_force)
             s2 == Integrate(s1, delta_time)
             s3 == ConsumeFuel(s2, config, command, delta_time)
             s4 == [s3 EXCEPT !.altitude =
                                 vector_magnitude(s3.position) - EARTH_RADIUS]
         IN  IF check_ground_collision(s4) THEN GroundContact(s4)
             ELSE [s4 EXCEPT !.in_orbit = check_orbital_stability(s4),
                             !.time = @ + delta_time]

rocket_update(state, config, command, delta_time) ==
    IF IsTerminal(state) THEN state
    ELSE LET gravity_force == calculate_gravity(state.position)
             drag_force == calculate_drag(state, config)
             thrust_force == calculate_thrust(config, command, state.position)
             total_force == vector_add(vector_add(gravity_force, drag_force),
                                       thrust_force)
             s1 == Accelerate(state, total_force)
             s2 == Integrate(s1, delta_time)
             s3 == ConsumeFuel(s2, config, command, delta_time)
             s4 == [s3 EXCEPT !.altitude =
                                 vector_magnitude(s3.position) - EARTH_RADIUS]
         IN  IF check_ground_collision(s4) THEN GroundContact(s4)
             ELSE [s4 EXCEPT !.in_orbit = check_orbital_stability(s4),
                             !.time = @ + delta_time]

PlanetGravity(state, planet) ==
    LET distance == vector_magnitude(state.position)
    IN  IF distance > planet.radius
        THEN LET gravity_magnitude ==
                     FDiv(FMul(G_CONSTANT, planet.mass), FMul(distance, distance))
                 direction == vector_normalize(state.position)
             IN  vector_scale(direction, -gravity_magnitude)
        ELSE ZeroVec

PlanetDrag(state, config, planet) ==
    IF state.altitude < planet.atmosphere_height /\ state.altitude > 0
    THEN LET rho == FMul(FMul(planet.surface_pressure, RHO_0),
                         FExp(FDiv(-state.altitude, planet.scale_height)))
             velocity_magnitude == vector_magnitude(state.velocity)
         IN  IF velocity_magnitude > 0
             THEN LET drag == FMul(FMul(FMul(FMul(FMul(HALF, rho), velocity_magnitude),
                                             velocity_magnitude),
                                        config.drag_coefficient),
                                   config.cross_section)
                      velocity_direction == vector_normalize(state.velocity)
                  IN  vector_scale(velocity_direction, -drag)
             ELSE ZeroVec
    ELSE ZeroVec

\* mutant: in_orbit is latched, a true flag is never cleared
rocket_update_with_planet_latched(state, config, command, planet, delta_time) ==
    IF IsTerminal(state) THEN state
    ELSE LET gravity_force == PlanetGravity(state, planet)
             drag_force == PlanetDrag(state, config, planet)
             thrust_force == calculate_thrust(config, command, state.position)
             total_force == vector_add(vector_add(gravity_force, drag_force),
                                       thrust_force)
             s1 == Accelerate(state, total_force)
             s2 == Integrate(s1, delta_time)
             s3 == ConsumeFuel(s2, config, command, delta_time)
             distance == vector_magnitude(s3.position)
             s4 == [s3 EXCEPT !.altitude = distance - planet.radius]
         IN  IF distance <= planet.radius THEN GroundContact(s4)
             ELSE [s4 EXCEPT !.in_orbit = @ \/ predict_orbit(s4, planet).is_stable,
                             !.time = @ + delta_time]

rocket_update_with_planet(state, config, command, planet, delta_time) ==
    IF IsTerminal(state) THEN state
    ELSE LET gravity_force == PlanetGravity(state, planet)
             drag_force == PlanetDrag(state, config, planet)
             thrust_force == calculate_thrust(config, command, state.position)
             total_force == vector_add(vector_add(gravity_force, drag_force),
                                       thrust_force)
             s1 == Accelerate(state, total_force)
             s2 == Integrate(s1, delta_time)
             s3 == ConsumeFuel(s2, config, command, delta_time)
             distance == vector_magnitude(s3.position)
             s4 == [s3 EXCEPT !.altitude = distance - planet.radius]
         IN  IF distance <= planet.radius THEN GroundContact(s4)
             ELSE [s4 EXCEPT !.in_orbit = predict_orbit(s4, planet).is_stable,
                             !.time = @ + delta_time]

-----------------------------------------------------------------------------
(* Decimal floating point.  The launch of test_physics.c and the orbits of   *)
(* the real Earth do not fit the scale model: they need the magnitudes of     *)
(* rocket_physics.h.  Here a double is a record [m, e] of value m * 10^e      *)
(* with an eight-digit mantissa, 10^7 <= |m| < 10^8, or m = 0.  Every         *)
(* operation rounds its exact result to eight digits (relative error about    *)
(* 1e-7, against 1.1e-16 for the doubles of the code); all intermediate       *)
(* integers stay below 2^31.  The operations are functions: as in C, an       *)
(* argument is computed once, before the call.                                *)

Double == [m : Int, e : Int]

\* the element of a one-element set: { F(x) : x \in {v} } computes v once and
\* names its value x, as the assignment to a local variable does
Only(S) == CHOOSE x \in S : TRUE

\* n / d rounded to nearest, ties away from zero, for d > 0, without forming 2|n|
RoundQuot(n, d) ==
    LET a == Abs(n)
        q == a \div d + (IF 2 * (a % d) >= d THEN 1 ELSE 0)
    IN  IF n >= 0 THEN q ELSE -q

\* number of decimal digits of n, 0 < n < 2^31
Digits(n) ==
    IF n < 10^5
    THEN IF n < 100 THEN (IF n < 10 THEN 1 ELSE 2)
         ELSE IF n < 1000 THEN 3 ELSE IF n < 10^4 THEN 4 ELSE 5
    ELSE IF n < 10^7 THEN (IF n < 10^6 THEN 6 ELSE 7)
         ELSE IF n < 10^8 THEN 8 ELSE IF n < 10^9 THEN 9 ELSE 10

Zero == [m |-> 0, e |-> 0]

\* r * 10^e for |r| <= 10^8: a mantissa rounded up to 10^8 takes the next exponent
Carry[r \in Int, e \in Int] ==
    IF Abs(r) >= 10^8 THEN [m |-> RoundQuot(r, 10), e |-> e + 1]
    ELSE [m |-> r, e |-> e]

\* the double nearest to m * 10^e
Dec[m \in Int, e \in Int] ==
    IF m = 0 THEN Zero
    ELSE LET k == Digits(Abs(m))
         IN  IF k > 8 THEN Carry[RoundQuot(m, 10^(k - 8)), e + k - 8]
             ELSE [m |-> m * 10^(8 - k), e |-> e - (8 - k)]

One == Dec[1, 0]
Half == Dec[5, -1]

DNeg[a \in Double] == [m |-> -a.m, e |-> a.e]

\* a + b: the smaller operand is aligned to the larger with one guard digit
DAdd[a \in Double, b \in Double] ==
    IF a.m = 0 THEN b
    ELSE IF b.m = 0 THEN a
    ELSE LET big == IF a.e >= b.e THEN a ELSE b
             small == IF a.e >= b.e THEN b ELSE a
             d == big.e - small.e
         IN  IF d > 9 THEN big
             ELSE Dec[big.m * 10 + RoundQuot(small.m * 10, 10^d), big.e - 1]

DSub[a \in Double, b \in Double] == DAdd[a, DNeg[b]]

\* a * b: the mantissas are multiplied in halves of four digits
DMul[a \in Double, b \in Double] ==
    IF a.m = 0 \/ b.m = 0 THEN Zero
    ELSE LET am == Abs(a.m)
             bm == Abs(b.m)
             ah == am \div 10000
             al == am % 10000
             bh == bm \div 10000
             bl == bm % 10000
             hi == ah * bh
             low == ah * bl + al * bh + (al * bl) \div 10000
             s == IF (a.m < 0) = (b.m < 0) THEN 1 ELSE -1
         IN  IF hi < 10^7
             THEN Dec[s * (hi * 100 + RoundQuot(low, 100)), a.e + b.e + 6]
             ELSE Dec[s * (hi * 10 + RoundQuot(low, 1000)), a.e + b.e + 7]

\* the next n digits of the long division of r by b, for r < b, rounded in
\* the last one
Quotient[r \in Int, b \in Int, n \in Nat] ==
    IF n = 0 THEN (IF 2 * r >= b THEN 1 ELSE 0)
    ELSE IF r = 0 THEN 0
    ELSE ((r * 10) \div b) * 10^(n - 1) + Quotient[(r * 10) % b, b, n - 1]

\* a / b for b # 0
DDiv[a \in Double, b \in Double] ==
    IF a.m = 0 THEN Zero
    ELSE LET am == Abs(a.m)
             bm == Abs(b.m)
             s == IF (a.m < 0) = (b.m < 0) THEN 1 ELSE -1
         IN  IF am < bm
             THEN Dec[s * Quotient[am, bm, 9], a.e - b.e - 9]
             ELSE Dec[s * ((am \div bm) * 10^8 + Quotient[am % bm, bm, 8]),
                      a.e - b.e - 8]

DLt(a, b) == DSub[a, b].m < 0
DLe(a, b) == DSub[a, b].m <= 0

\* the integer square root of n by Newton's iteration from g >= sqrt(n)
Root[n \in Int, g \in Int] ==
    IF (g + n \div g) \div 2 >= g THEN g ELSE Root[n, (g + n \div g) \div 2]

\* one Newton step for sqrt(a) from x
Newton[a \in Double, x \in Double] == DMul[Half, DAdd[x, DDiv[a, x]]]

\* sqrt(a): the integer root of the mantissa, then two Newton steps
DSqrt[a \in Double] ==
    IF a.m <= 0 THEN Zero
    ELSE LET even == a.e % 2 = 0
             m == IF even THEN a.m ELSE a.m * 10
             e == IF even THEN a.e ELSE a.e - 1
         IN  Newton[a, Newton[a, Dec[Root[m, 46340], e \div 2]]]

\* 1 + x/k * (1 + x/(k+1) * (1 + ... * (1 + x/n))): the Taylor series of e^x
\* to x^n/n! for k = 1
ExpSeries[x \in Double, k \in Nat, n \in Nat] ==
    IF k > n THEN One
    ELSE DAdd[One, DMul[DDiv[x, Dec[k, 0]], ExpSeries[x, k + 1, n]]]

\* y^(2^n)
Squared[y \in Double, n \in Nat] ==
    IF n = 0 THEN y ELSE Squared[DMul[y, y], n - 1]

\* e^-1, e^-2, e^-4, ..., e^-512
ExpNeg ==
    << Dec[36787944, -8], Dec[13533528, -8], Dec[18315639, -9],
       Dec[33546263, -11], Dec[11253517, -14], Dec[12664166, -21],
       Dec[16038109, -35], Dec[25722094, -63],
       Dec[66162611, -119], Dec[43774910, -230] >>

\* e^-k for an integer k, 0 <= k < 1024, by the binary digits of k from the
\* i-th on
ExpNegInt[k \in Nat, i \in Nat] ==
    IF k = 0 THEN One
    ELSE IF k % 2 = 1 THEN DMul[ExpNeg[i], ExpNegInt[k \div 2, i + 1]]
    ELSE ExpNegInt[k \div 2, i + 1]

\* the integer part of y for 0 <= y < 10^8
Floor[y \in Double] == IF y.m = 0 \/ y.e < -7 THEN 0 ELSE y.m \div 10^(-y.e)

\* e^-y for y >= 0: with y = k + f, e^-k times (e^(-f/8))^8, the latter by its
\* Taylor series; a double holds nothing below e^-745
DExpNeg[y \in Double] ==
    IF DLt(Dec[745, 0], y) THEN Zero
    ELSE DMul[ExpNegInt[Floor[y], 1],
              Squared[ExpSeries[DDiv[DSub[Dec[Floor[y], 0], y], Dec[8, 0]], 1, 7], 3]]

\* exp(x), for x < 745
DExp[x \in Double] == IF x.m <= 0 THEN DExpNeg[DNeg[x]] ELSE DDiv[One, DExpNeg[x]]

\* 1 - x2/(k(k+1)) * (1 - x2/((k+2)(k+3)) * (1 - ...)) to the factor of n:
\* cos x for k = 1 and sin x / x for k = 2, with x2 = x * x
TrigSeries[x2 \in Double, k \in Nat, n \in Nat] ==
    IF k > n \/ x2.m = 0 THEN One
    ELSE DSub[One, DMul[DDiv[x2, Dec[k * (k + 1), 0]], TrigSeries[x2, k + 2, n]]]

\* sin x and cos x by their Taylor series of ten terms, for |x| <= pi
DSin[x \in Double] == DMul[x, TrigSeries[DMul[x, x], 2, 18]]
DCos[x \in Double] == TrigSeries[DMul[x, x], 1, 17]

M_PI == Dec[314159265, -8]

\* deg * M_PI / 180.0
Radians[deg \in Double] == DDiv[DMul[deg, M_PI], Dec[180, 0]]


-----------------------------------------------------------------------------
(* The physics core once more, in decimal floating point and with the        *)
(* constants of rocket_physics.h at their real values.  Each definition is    *)
(* the function of the same name, statement by statement; the suffix _dec     *)
(* tells it from its translation to the scale model.                          *)

G_CONSTANT_dec == Dec[6674, -14]
EARTH_RADIUS_dec == Dec[6371000, 0]
EARTH_MASS_dec == Dec[5972, 21]
EARTH_ATMOSPHERE_dec == Dec[100000, 0]
EARTH_SCALE_HEIGHT_dec == Dec[8500, 0]

ZeroVec_dec == Vec(Zero, Zero, Zero)

vector_add_dec(a, b) ==
    Only({ Vec(DAdd[u.x, v.x], DAdd[u.y, v.y], DAdd[u.z, v.z]) : u \in {a}, v \in {b} })

vector_scale_dec(v, scalar) ==
    Only({ Vec(DMul[u.x, s], DMul[u.y, s], DMul[u.z, s]) : u \in {v}, s \in {scalar} })

vector_magnitude_dec(v) ==
    Only({ DSqrt[DAdd[DAdd[DMul[u.x, u.x], DMul[u.y, u.y]], DMul[u.z, u.z]]] :
           u \in {v} })

vector_normalize_dec(v) ==
    Only({ Only({ IF DLt(mag, Dec[1, -10]) THEN ZeroVec_dec
                  ELSE vector_scale_dec(u, DDiv[One, mag]) :
                  mag \in {vector_magnitude_dec(u)} }) :
           u \in {v} })

vector_dot_dec(a, b) ==
    Only({ DAdd[DAdd[DMul[u.x, v.x], DMul[u.y, v.y]], DMul[u.z, v.z]] :
           u \in {a}, v \in {b} })

vector_cross_dec(a, b) ==
    Only({ Vec(DSub[DMul[u.y, v.z], DMul[u.z, v.y]],
               DSub[DMul[u.z, v.x], DMul[u.x, v.z]],
               DSub[DMul[u.x, v.y], DMul[u.y, v.x]]) :
           u \in {a}, v \in {b} })

spherical_to_cartesian_dec(latitude, longitude, altitude) ==
    Only({ Vec(DMul[DMul[r, DCos[lat_rad]], DCos[lon_rad]],
               DMul[DMul[r, DCos[lat_rad]], DSin[lon_rad]],
               DMul[r, DSin[lat_rad]]) :
           lat_rad \in {Radians[latitude]},
           lon_rad \in {Radians[longitude]},
           r \in {DAdd[EARTH_RADIUS_dec, altitude]} })

planet_earth_default_dec ==
    [radius |-> EARTH_RADIUS_dec, mass |-> EARTH_MASS_dec,
     atmosphere_height |-> EARTH_ATMOSPHERE_dec, surface_pressure |-> One,
     scale_height |-> EARTH_SCALE_HEIGHT_dec]

rocket_init_dec(config, initial_position) ==
    Only({ [position |-> position,
            velocity |-> ZeroVec_dec,
            acceleration |-> ZeroVec_dec,
            mass_current |-> DAdd[config.mass_empty, config.mass_fuel],
            fuel_remaining |-> config.mass_fuel,
            altitude |-> DSub[vector_magnitude_dec(position), EARTH_RADIUS_dec],
            speed |-> Zero,
            in_orbit |-> FALSE,
            landed |-> FALSE,
            crashed |-> FALSE,
            time |-> Zero] :
           position \in {initial_position} })

calculate_gravity_dec(position) ==
    Only({ IF DLt(distance, EARTH_RADIUS_dec) THEN ZeroVec_dec
           ELSE LET gravity_magnitude ==
                        DDiv[DMul[G_CONSTANT_dec, EARTH_MASS_dec],
                             DMul[distance, distance]]
                    direction == vector_normalize_dec(position)
                IN  vector_scale_dec(direction, DNeg[gravity_magnitude]) :
           distance \in {vector_magnitude_dec(position)} })

\* 0.5 * rho * v * v * drag_coefficient * cross_section, against the velocity
DragForce_dec(state, config, rho, velocity_magnitude) ==
    LET drag_force ==
            DMul[DMul[DMul[DMul[DMul[Half, rho], velocity_magnitude],
                           velocity_magnitude],
                      config.drag_coefficient],
                 config.cross_section]
        velocity_direction == vector_normalize_dec(state.velocity)
    IN  vector_scale_dec(velocity_direction, DNeg[drag_force])

calculate_drag_dec(state, config) ==
    IF DLt(EARTH_ATMOSPHERE_dec, state.altitude) THEN ZeroVec_dec
    ELSE Only({ IF DLt(velocity_magnitude, Dec[1, -6]) THEN ZeroVec_dec
                ELSE DragForce_dec(state, config,
                         DMul[Dec[1225, -3],
                              DExp[DDiv[DNeg[state.altitude], EARTH_SCALE_HEIGHT_dec]]],
                         velocity_magnitude) :
                velocity_magnitude \in {vector_magnitude_dec(state.velocity)} })

RECURSIVE ThrustSum_dec(_, _, _)
ThrustSum_dec(config, command, n) ==
    IF n = 0 THEN Zero
    ELSE DAdd[ThrustSum_dec(config, command, n - 1),
              IF config.engines[n].is_active
              THEN DMul[config.engines[n].thrust, command.engine_throttle[n]]
              ELSE Zero]

\* east of the radial direction: across the z axis, or across the x axis where
\* that product is shorter than 0.01
East_dec(radial_up) ==
    Only({ IF DLt(vector_magnitude_dec(east), Dec[1, -2])
           THEN vector_normalize_dec(vector_cross_dec(radial_up, Vec(One, Zero, Zero)))
           ELSE vector_normalize_dec(east) :
           east \in {vector_cross_dec(radial_up, Vec(Zero, Zero, One))} })

\* radial_up * cos(pitch_rad) + east * sin(pitch_rad)
ThrustDirection_dec(radial_up, east, pitch_rad) ==
    Vec(DAdd[DMul[radial_up.x, DCos[pitch_rad]], DMul[east.x, DSin[pitch_rad]]],
        DAdd[DMul[radial_up.y, DCos[pitch_rad]], DMul[east.y, DSin[pitch_rad]]],
        DAdd[DMul[radial_up.z, DCos[pitch_rad]], DMul[east.z, DSin[pitch_rad]]])

calculate_thrust_dec(config, command, position) ==
    IF command.is_null \/ command.throttle_null THEN ZeroVec_dec
    ELSE Only({ IF DLt(thrust_magnitude, Dec[1, -6]) THEN ZeroVec_dec
                ELSE Only({ Only({ vector_scale_dec(
                                       ThrustDirection_dec(radial_up, east, pitch_rad),
                                       thrust_magnitude) :
                                   east \in {East_dec(radial_up)} }) :
                            radial_up \in {vector_normalize_dec(position)},
                            pitch_rad \in {Radians[command.pitch]} }) :
                thrust_magnitude \in
                    {ThrustSum_dec(config, command, EngineLoopBound(config, command))} })

RECURSIVE ConsumptionSum_dec(_, _, _, _)
ConsumptionSum_dec(config, command, delta_time, n) ==
    IF n = 0 THEN Zero
    ELSE DAdd[ConsumptionSum_dec(config, command, delta_time, n - 1),
              IF config.engines[n].is_active
              THEN DMul[DMul[config.engines[n].fuel_consumption,
                             command.engine_throttle[n]], delta_time]
              ELSE Zero]

calculate_fuel_consumption_dec(config, command, delta_time) ==
    IF command.is_null \/ command.throttle_null THEN Zero
    ELSE ConsumptionSum_dec(config, command, delta_time,
                            EngineLoopBound(config, command))

check_ground_collision_dec(state) ==
    DLe(vector_magnitude_dec(state.position), EARTH_RADIUS_dec)

check_orbital_stability_dec(state) ==
    IF DLt(state.altitude, EARTH_ATMOSPHERE_dec) THEN FALSE
    ELSE LET distance == vector_magnitude_dec(state.position)
             orbital_speed ==
                 DSqrt[DDiv[DMul[G_CONSTANT_dec, EARTH_MASS_dec], distance]]
         IN  Only({ DLe(Dec[9, -1], speed_ratio) /\ DLe(speed_ratio, Dec[11, -1]) :
                    speed_ratio \in {DDiv[state.speed, orbital_speed]} })

\* the statements both step functions share: acceleration from the total
\* force, the Euler step, the fuel and the mass
Advance_dec(state, config, command, total_force, delta_time) ==
    Only({ Only({ [state EXCEPT
                      !.acceleration = acceleration,
                      !.velocity = velocity,
                      !.speed = vector_magnitude_dec(velocity),
                      !.position = vector_add_dec(state.position,
                                                  vector_scale_dec(velocity, delta_time)),
                      !.fuel_remaining = fuel_remaining,
                      !.mass_current = DAdd[config.mass_empty, fuel_remaining]] :
                  velocity \in {vector_add_dec(state.velocity,
                                               vector_scale_dec(acceleration, delta_time))},
                  fuel_remaining \in {IF reduced.m < 0 THEN Zero ELSE reduced} }) :
           acceleration \in
               {IF DLt(Zero, state.mass_current)
                THEN vector_scale_dec(total_force, DDiv[One, state.mass_current])
                ELSE ZeroVec_dec},
           reduced \in
               {DSub[state.fuel_remaining,
                     calculate_fuel_consumption_dec(config, command, delta_time)]} })

GroundContact_dec(state) ==
    [state EXCEPT !.landed = IF DLt(state.speed, Dec[5, 0]) THEN TRUE ELSE @,
                  !.crashed = IF DLt(state.speed, Dec[5, 0]) THEN @ ELSE TRUE,
                  !.velocity = ZeroVec_dec,
                  !.acceleration = ZeroVec_dec]

rocket_update_dec(state, config, command, delta_time) ==
    IF IsTerminal(state) THEN state
    ELSE LET gravity_force == calculate_gravity_dec(state.position)
             drag_force == calculate_drag_dec(state, config)
             thrust_force == calculate_thrust_dec(config, command, state.position)
             total_force == vector_add_dec(vector_add_dec(gravity_force, drag_force),
                                           thrust_force)
         IN  Only({ Only({ IF check_ground_collision_dec(s4) THEN GroundContact_dec(s4)
                           ELSE [s4 EXCEPT !.in_orbit = check_orbital_stability_dec(s4),
                                           !.time = DAdd[@, delta_time]] :
                           s4 \in {[s3 EXCEPT !.altitude =
                                       DSub[vector_magnitude_dec(s3.position),
                                            EARTH_RADIUS_dec]]} }) :
                    s3 \in {Advance_dec(state, config, command, total_force,
                                        delta_time)} })

orbital_velocity_at_altitude_dec(planet, altitude) ==
    DSqrt[DDiv[DMul[G_CONSTANT_dec, planet.mass], DAdd[planet.radius, altitude]]]

\* the OrbitPrediction for a semi-major axis a (a_inf stands for a = INFINITY)
\* and an eccentricity
Prediction_dec(state, planet, a_inf, a, eccentricity) ==
    LET closed == DLt(eccentricity, One) /\ (a_inf \/ a.m > 0)
    IN  Only({ [apoapsis |-> IF closed
                             THEN DSub[DMul[a, DAdd[One, eccentricity]], planet.radius]
                             ELSE Dec[-1, 0],
                periapsis |-> periapsis,
                eccentricity |-> eccentricity,
                orbital_velocity |-> state.speed,
                required_velocity |->
                    orbital_velocity_at_altitude_dec(planet, state.altitude),
                is_stable |-> DLt(planet.atmosphere_height, periapsis)
                              /\ DLt(eccentricity, One)] :
               periapsis \in
                   {IF closed
                    THEN DSub[DMul[a, DSub[One, eccentricity]], planet.radius]
                    ELSE state.altitude} })

\* a and the eccentricity from mu, the specific energy and h
Elements_dec(state, planet, mu, specific_energy, h) ==
    IF DLt(Dec[Abs(specific_energy.m), specific_energy.e], Dec[1, -10])
    THEN Prediction_dec(state, planet, TRUE, Zero, One)
    ELSE Only({ Only({ Prediction_dec(state, planet, FALSE, a,
                                      DSqrt[IF e_sq.m < 0 THEN Zero ELSE e_sq]) :
                       e_sq \in {DSub[One, DDiv[DMul[h, h], DMul[mu, a]]]} }) :
                a \in {DDiv[DNeg[mu], DMul[Dec[2, 0], specific_energy]]} })

predict_orbit_dec(state, planet) ==
    Only({ Only({ Elements_dec(state, planet, mu, specific_energy, h) :
                  specific_energy \in
                      {DSub[DDiv[DMul[state.speed, state.speed], Dec[2, 0]],
                            DDiv[mu, vector_magnitude_dec(state.position)]]} }) :
           mu \in {DMul[G_CONSTANT_dec, planet.mass]},
           h \in {vector_magnitude_dec(vector_cross_dec(state.position,
                                                        state.velocity))} })

rocket_update_with_planet_dec(state, config, command, planet, delta_time) ==
    IF IsTerminal(state) THEN state
    ELSE LET distance == vector_magnitude_dec(state.position)
             gravity_force ==
                 Only({ IF DLt(planet.radius, d)
                        THEN vector_scale_dec(
                                 vector_normalize_dec(state.position),
                                 DNeg[DDiv[DMul[G_CONSTANT_dec, planet.mass],
                                           DMul[d, d]]])
                        ELSE ZeroVec_dec :
                        d \in {distance} })
             drag_force ==
                 IF /\ DLt(state.altitude, planet.atmosphere_height)
                    /\ DLt(Zero, state.altitude)
                 THEN Only({ IF DLt(Dec[1, -6], velocity_magnitude)
                             THEN DragForce_dec(state, config,
                                      DMul[DMul[planet.surface_pressure, Dec[1225, -3]],
                                           DExp[DDiv[DNeg[state.altitude],
                                                     planet.scale_height]]],
                                      velocity_magnitude)
                             ELSE ZeroVec_dec :
                             velocity_magnitude \in
                                 {vector_magnitude_dec(state.velocity)} })
                 ELSE ZeroVec_dec
             thrust_force == calculate_thrust_dec(config, command, state.position)
             total_force == vector_add_dec(vector_add_dec(gravity_force, drag_force),
                                           thrust_force)
         IN  Only({ Only({ Only({ IF DLe(new_distance, planet.radius)
                                  THEN GroundContact_dec(s4)
                                  ELSE [s4 EXCEPT
                                           !.in_orbit =
                                               predict_orbit_dec(s4, planet).is_stable,
                                           !.time = DAdd[@, delta_time]] :
                                  s4 \in {[s3 EXCEPT !.altitude =
                                              DSub[new_distance, planet.radius]]} }) :
                           new_distance \in {vector_magnitude_dec(s3.position)} }) :
                    s3 \in {Advance_dec(state, config, command, total_force,
                                        delta_time)} })


-----------------------------------------------------------------------------
(* The visualizer (src/Graphic).  SimulationState is the registry of the     *)
(* rockets the server has announced; RocketData is one entry.  A string is a  *)
(* TLA+ string, a Color is the number of colours the generator had handed     *)
(* out when it made this one, a RocketState of protocol.hpp is its position   *)
(* (whole metres) and its time.                                               *)

\* the pointer that points to nothing
nullptr == [pointer |-> "null"]

\* the value-initialised RocketState and RocketConfig of protocol.hpp
DefaultRocketState == [position |-> ZeroVec, time |-> 0]
DefaultRocketConfig == [name |-> ""]

MIN_POINT_DISTANCE == 100
MAX_HISTORY_POINTS == 10000

RocketData(id, name, color) ==
    [m_id |-> id, m_name |-> name, m_color |-> color,
     m_currentState |-> DefaultRocketState, m_config |-> DefaultRocketConfig,
     m_history |-> << >>]

\* the state is stored; a trajectory point is added unless the rocket is less
\* than MIN_POINT_DISTANCE from the last one (dist < 100 compared in squares)
updateState(rocket, state) ==
    LET point == [position |-> state.position, timestamp |-> state.time]
        d == IF rocket.m_history = << >> THEN ZeroVec
             ELSE vector_sub(state.position,
                             rocket.m_history[Len(rocket.m_history)].position)
        near == /\ rocket.m_history # << >>
                /\ d.x * d.x + d.y * d.y + d.z * d.z
                      < MIN_POINT_DISTANCE * MIN_POINT_DISTANCE
        history == Append(rocket.m_history, point)
    IN  [rocket EXCEPT
            !.m_currentState = state,
            !.m_history = IF near THEN @
                          ELSE IF Len(history) > MAX_HISTORY_POINTS
                               THEN Tail(history) ELSE history]

\* the configuration is stored, and its name replaces the rocket's
setConfig(rocket, config) ==
    [rocket EXCEPT !.m_config = config, !.m_name = config.name]

\* the SimulationState after construction (the cosmodromes, which no operation
\* changes, are left out)
SimulationState ==
    [m_rockets |-> [i \in {} |-> nullptr], m_trackedRocketId |-> "",
     m_colorGenerator |-> 0]

IsRegistered(s, id) == id \in DOMAIN s.m_rockets

\* getNextColor moves the hue on by the golden ratio, modulo 1: the n-th colour
\* differs from all before it, and is modelled by n
getNextColor(generator) == generator + 1

\* mutant: a second registration replaces the entry
addRocket_overwrites(s, id, name, config) ==
    LET color == getNextColor(s.m_colorGenerator)
        rocket == setConfig(RocketData(id, name, color), config)
    IN  [s EXCEPT !.m_colorGenerator = color,
                  !.m_rockets = [i \in DOMAIN @ \cup {id} |->
                                    IF i = id THEN rocket ELSE @[i]]]

addRocket(s, id, name, config) ==
    IF IsRegistered(s, id) THEN s
    ELSE LET color == getNextColor(s.m_colorGenerator)
             rocket == setConfig(RocketData(id, name, color), config)
         IN  [s EXCEPT !.m_colorGenerator = color,
                       !.m_rockets = [i \in DOMAIN @ \cup {id} |->
                                         IF i = id THEN rocket ELSE @[i]]]

updateRocket(s, id, state) ==
    IF IsRegistered(s, id)
    THEN [s EXCEPT !.m_rockets[id] = updateState(@, state)]
    ELSE s

\* mutant: the tracked id is kept when its rocket is removed
removeRocket_keeps_tracking(s, id) ==
    [s EXCEPT !.m_rockets = [i \in DOMAIN @ \ {id} |-> @[i]]]

removeRocket(s, id) ==
    [s EXCEPT !.m_rockets = [i \in DOMAIN @ \ {id} |-> @[i]],
              !.m_trackedRocketId = IF @ = id THEN "" ELSE @]

getRocketCount(s) == Cardinality(DOMAIN s.m_rockets)

setTrackedRocket(s, id) == [s EXCEPT !.m_trackedRocketId = id]

getTrackedRocket(s) ==
    IF s.m_trackedRocketId = "" THEN nullptr
    ELSE IF IsRegistered(s, s.m_trackedRocketId)
         THEN s.m_rockets[s.m_trackedRocketId]
         ELSE nullptr

-----------------------------------------------------------------------------
(* WebSocketClient and Application.  onMessage is the handler the WebSocket   *)
(* library calls on its own thread, one event at a time; the main thread runs *)
(* Application::run.  A text message is modelled by what handleMessage finds   *)
(* in it: whether it is JSON, the "type" it carries, and the fields of its      *)
(* "data", which decode into the struct of that type when none is missing.    *)

Text(json, type, data) == [json |-> json, type |-> type, data |-> data]

\* parseMessageType: the names protocol.cpp knows, Unknown for all others
MessageTypes ==
    { "register", "telemetry", "disconnect", "accepted", "rejected", "command",
      "warning", "shutdown", "trajectory", "rocket_list", "subscribe",
      "unsubscribe", "broadcast", "rocket_joined", "rocket_left" }

parseMessageType(type) == IF type \in MessageTypes THEN type ELSE "unknown"

\* the types handleMessage has a case for
Dispatched == { "broadcast", "rocket_joined", "rocket_left", "warning" }

\* the fields NLOHMANN_DEFINE_TYPE_INTRUSIVE reads, each with at()
Fields(type) ==
    IF type = "broadcast" THEN {"rocket_id", "name", "state"}
    ELSE IF type = "rocket_joined" THEN {"rocket_id", "name", "config"}
    ELSE IF type = "rocket_left" THEN {"rocket_id", "reason"}
    ELSE {"rocket_id", "warning", "severity"}

\* what handleMessage does with a text: json::parse throws on text that is not
\* JSON, from_json throws without a "type", get<T>() throws on data that does
\* not decode; every exception is caught and the message forgotten.  A type
\* without a case is ignored.
handleMessage(json) ==
    IF json.json # "object" \/ json.type = "missing" THEN [outcome |-> "dropped"]
    ELSE IF parseMessageType(json.type) \notin Dispatched
         THEN [outcome |-> "ignored"]
         ELSE IF ~(Fields(parseMessageType(json.type)) \subseteq DOMAIN json.data)
              THEN [outcome |-> "dropped"]
              ELSE [outcome |-> "callback",
                    type |-> parseMessageType(json.type),
                    msg |-> json.data]

MAX_LOGS == 50

\* UIManager: the connection flag and the log lines
UIManager == [m_connected |-> FALSE, m_logs |-> << >>]

addLog(u, message, color) ==
    LET logs == Append(u.m_logs, [message |-> message, color |-> color])
    IN  [u EXCEPT !.m_logs = IF Len(logs) > MAX_LOGS THEN Tail(logs) ELSE logs]

addWarning(u, message) == addLog(u, <<"[WARN] ", message>>, "YELLOW")
addError(u, message) == addLog(u, <<"[ERR] ", message>>, "RED")

\* the WebSocketClient after construction
WebSocketClient ==
    [m_connected |-> FALSE, m_subscribed |-> FALSE, m_messageQueue |-> << >>,
     m_queueMutex |-> "free"]

\* the callbacks Application::initNetwork installs: what each does to the
\* SimulationState and to the UIManager
onBroadcast(s, msg) == updateRocket(s, msg.rocket_id, msg.state)
onRocketJoined(s, msg) == addRocket(s, msg.rocket_id, msg.name, msg.config)
onRocketLeft(s, msg) == removeRocket(s, msg.rocket_id)

StateAfter(s, call) ==
    IF call.outcome # "callback" THEN s
    ELSE IF call.type = "broadcast" THEN onBroadcast(s, call.msg)
    ELSE IF call.type = "rocket_joined" THEN onRocketJoined(s, call.msg)
    ELSE IF call.type = "rocket_left" THEN onRocketLeft(s, call.msg)
    ELSE s

UIAfter(u, call) ==
    IF call.outcome # "callback" THEN u
    ELSE IF call.type = "rocket_joined"
         THEN addLog(u, <<"Rocket joined: ", call.msg.name>>, "GREEN")
    ELSE IF call.type = "rocket_left"
         THEN addLog(u, <<"Rocket left: ", call.msg.rocket_id>>, "ORANGE")
    ELSE IF call.type = "warning" THEN addWarning(u, call.msg.warning)
    ELSE u

-----------------------------------------------------------------------------
(* The driver: one vehicle, created by rocket_init and advanced by step calls *)

VARIABLES
    state,      \* the RocketState
    config,     \* the RocketConfig, read-only after launch
    planet,     \* the PlanetConfig the driver passes to rocket_update_with_planet
    last,       \* the last call: its name, inputs and the state it was given
    ret,        \* the value the last call returned, for the functions that return one
    gt_config,  \* the GravityTurnConfig of the ascent guidance
    fleet,      \* the RocketStates of a driver that flies several vehicles
    log,        \* per vehicle of the fleet: its first state and the calls made on it
    driver,     \* main() of test_physics.c: its command, its clock, its position
    client,     \* the WebSocketClient of the visualizer
    threads,    \* the socket thread and the main-loop thread of the visualizer
    ui,         \* the UIManager
    sim,        \* the SimulationState
    trace       \* what has happened: events delivered, messages handled, calls made

vars == <<state, config, planet, last, ret, gt_config, fleet, log, driver,
          client, threads, ui, sim, trace>>

\* the value of ret after a call of a void function
NoValue == "void"

\* a GravityTurnConfig with automatic pitch switched off
gravity_turn_off ==
    [target_altitude |-> 0, turn_start_alt |-> 0, turn_end_alt |-> 0,
     auto_pitch |-> FALSE]

\* the driver variable of a run that is not the launch of test_physics.c
NoDriver == [command |-> NullCommand, total_time |-> 0, pc |-> "none"]

\* the visualizer is a program of its own: a run of the physics has none
visualizer == <<client, threads, ui, sim, trace>>
NoVisualizer == "none"
Headless ==
    /\ client = NoVisualizer
    /\ threads = NoVisualizer
    /\ ui = NoVisualizer
    /\ sim = NoVisualizer
    /\ trace = NoVisualizer

\* a driver of one vehicle without guidance: nothing returned, no fleet
guidance == <<ret, gt_config>>
convoy == <<fleet, log>>

SingleVehicle ==
    /\ ret = NoValue
    /\ gt_config = gravity_turn_off
    /\ fleet = << >>
    /\ log = << >>
    /\ driver = NoDriver
    /\ Headless

\* simulated seconds a run may last
MaxTime == 3

RocketConfig(mass_empty, mass_fuel, mass_fuel_max, engines) ==
    [mass_empty |-> mass_empty, mass_fuel |-> mass_fuel,
     mass_fuel_max |-> mass_fuel_max, engines |-> engines,
     engine_count |-> Len(engines), drag_coefficient |-> 5,
     cross_section |-> 10]

\* vehicles (drag coefficient 0.5, cross-section 1.0): two active engines and a
\* full tank, or one engine inactive and the tank half full
Configs ==
    { RocketConfig(20, 20, 20, << Engine(40, 10, TRUE), Engine(40, 10, TRUE) >>),
      RocketConfig(20, 10, 20, << Engine(40, 10, TRUE), Engine(40, 10, FALSE) >>) }

\* the Earth, and a smaller planet with a thinner, deeper atmosphere
Planets ==
    { planet_earth_default,
      planet_create(400, 8000, 80, 5, 30) }

\* launch sites: on the surface, in the atmosphere, above it, and on the polar axis
InitialPositions ==
    { Vec(EARTH_RADIUS, 0, 0),
      Vec(EARTH_RADIUS + 30, 0, 0),
      Vec(EARTH_RADIUS + 120, 0, 0),
      Vec(0, 0, EARTH_RADIUS + 60) }

\* the driver's time steps: 1.0 s and 2.0 s
DeltaTimes == {SCALE, 2 * SCALE}

\* coasting (no command, zero throttle), full thrust up, over-throttle down with
\* one throttle entry too many, one engine east with one entry too few, and
\* negative throttle
Commands ==
    { NullCommand,
      Command(<<0, 0>>, 2, 0, 0, 0),
      Command(<<10, 10>>, 2, 0, 0, 0),
      Command(<<20, 20, 20>>, 3, 1800, 0, 0),
      Command(<<10>>, 1, 900, 0, 0),
      Command(<<-10, -10>>, 2, 0, 0, 0) }

Call(op, command, delta_time, pre) ==
    [op |-> op, command |-> command, delta_time |-> delta_time, pre |-> pre]

Init ==
    /\ config \in Configs
    /\ planet \in Planets
    /\ \E initial_position \in InitialPositions :
          /\ state = rocket_init(config, initial_position)
          /\ last = Call("rocket_init", NullCommand, 0, state)
    /\ SingleVehicle

\* the driver stops calling when the simulated time is used up
InTime(delta_time) == state.time + delta_time <= MaxTime * SCALE

Update ==
    \E command \in Commands, delta_time \in DeltaTimes :
        /\ InTime(delta_time)
        /\ state' = rocket_update(state, config, command, delta_time)
        /\ last' = Call("rocket_update", command, delta_time, state)
        /\ UNCHANGED <<config, planet, guidance, convoy, driver, visualizer>>

UpdateWithPlanet ==
    \E command \in Commands, delta_time \in DeltaTimes :
        /\ InTime(delta_time)
        /\ state' = rocket_update_with_planet(state, config, command, planet,
                                              delta_time)
        /\ last' = Call("rocket_update_with_planet", command, delta_time, state)
        /\ UNCHANGED <<config, planet, guidance, convoy, driver, visualizer>>

Next == Update \/ UpdateWithPlanet

Spec == Init /\ [][Next]_vars

-----------------------------------------------------------------------------
(* One step from a state the caller has filled in field by field, as a unit  *)
(* test of the step functions does: RocketState is a plain struct.           *)

\* a RocketState at a position with a velocity, its derived fields consistent
\* with the planet it is flown on
StateAt(cfg, pl, position, velocity, fuel, in_orbit, landed, crashed) ==
    [position |-> position,
     velocity |-> velocity,
     acceleration |-> ZeroVec,
     mass_current |-> cfg.mass_empty + fuel,
     fuel_remaining |-> fuel,
     altitude |-> vector_magnitude(position) - pl.radius,
     speed |-> vector_magnitude(velocity),
     in_orbit |-> in_orbit,
     landed |-> landed,
     crashed |-> crashed,
     time |-> 0]

\* unit directions: radial on the X axis, a 3-4-5 direction, and the polar axis
Directions == { Vec(10, 0, 0), Vec(6, 8, 0), Vec(0, 0, 10) }

\* distances from the planet centre, relative to its radius
Heights == { 0, 30, 120 }

\* speeds 0, 4.9, 5.0, 5.1 and 40.0, along or against a direction
Speeds == { 0, 49, 50, 51, 400 }

Flags == { <<FALSE, FALSE, FALSE>>, <<TRUE, FALSE, FALSE>>,
           <<FALSE, TRUE, FALSE>>, <<FALSE, FALSE, TRUE>> }

\* the time steps of a single call: 0, 0.1 s and 1.0 s
StepDeltaTimes == {0, 1, SCALE}

\* the commands of Commands, and full throttle pitched 45 degrees east with yaw
\* and roll set
StepCommands == Commands \cup { Command(<<10, 10>>, 2, 450, 300, -600) }

InitStep ==
    /\ config \in Configs
    /\ planet \in Planets
    /\ \E pdir \in Directions, h \in Heights, vdir \in Directions,
          v \in Speeds, sign \in {-1, 1}, f \in Flags :
          /\ state = StateAt(config, planet,
                             vector_scale(pdir, planet.radius + h),
                             vector_scale(vdir, sign * v),
                             config.mass_fuel, f[1], f[2], f[3])
          /\ last = Call("construct", NullCommand, 0, state)
    /\ SingleVehicle

StepUpdate ==
    \E command \in StepCommands, delta_time \in StepDeltaTimes :
        /\ last.op = "construct"
        /\ state' = rocket_update(state, config, command, delta_time)
        /\ last' = Call("rocket_update", command, delta_time, state)
        /\ UNCHANGED <<config, planet, guidance, convoy, driver, visualizer>>

StepUpdateWithPlanet ==
    \E command \in StepCommands, delta_time \in StepDeltaTimes :
        /\ last.op = "construct"
        /\ state' = rocket_update_with_planet(state, config, command, planet,
                                              delta_time)
        /\ last' = Call("rocket_update_with_planet", command, delta_time, state)
        /\ UNCHANGED <<config, planet, guidance, convoy, driver, visualizer>>

NextStep == StepUpdate \/ StepUpdateWithPlanet

SpecStep == InitStep /\ [][NextStep]_vars

-----------------------------------------------------------------------------
(* Single calls of the functions that return a value, on a state the caller  *)
(* has filled in: the unit tests of the force model and of the guidance.     *)

\* an airless moon: no atmosphere at all
Moon == planet_create(200, 1000, 0, 0, 10)

CallPlanets == Planets \cup {Moon}

\* the vehicles of Configs, and one with a single engine of thrust 0.1
CallConfigs ==
    Configs \cup { RocketConfig(20, 20, 20, << Engine(1, 10, TRUE) >>) }

\* pitch angles in degrees, up, east, down, west and in between
Pitches == { 0, 300, 450, 900, 1350, 1800, 2700, -900 }

\* the commands of Commands, a command without a throttle array, and full
\* throttle at every pitch with yaw and roll set
CallCommands ==
    Commands \cup { NullThrottleCommand(2, 0) }
             \cup { Command(<<10, 10>>, 2, pitch, 300, -600) : pitch \in Pitches }

\* heights over the planet radius: below the surface, on it, and up to 12.0
CallHeights == { -30, 0, 10, 20, 30, 50, 80, 120 }

\* speeds: at rest, the escape speed 3.0 of the moon at height 2.0, near the
\* circular speed of the planets, and fast
CallSpeeds == { 0, 30, 39, 40, 400 }

\* target orbit altitudes handed to gravity_turn_for_orbit
TargetAltitudes == { 0, 10, 30, 100, 200 }

InitCall ==
    /\ config \in CallConfigs
    /\ planet \in CallPlanets
    /\ \E pdir \in Directions, h \in CallHeights, vdir \in Directions,
          v \in CallSpeeds, sign \in {-1, 1} :
          /\ state = StateAt(config, planet,
                             vector_scale(pdir, planet.radius + h),
                             vector_scale(vdir, sign * v),
                             config.mass_fuel, FALSE, FALSE, FALSE)
          /\ last = Call("construct", NullCommand, 0, state)
    /\ ret = NoValue
    /\ gt_config = gravity_turn_off
    /\ fleet = << >>
    /\ log = << >>
    /\ driver = NoDriver
    /\ Headless

\* a call that returns value with the state untouched
Returns(op, command, delta_time, value) ==
    /\ last.op = "construct"
    /\ ret' = value
    /\ last' = Call(op, command, delta_time, state)
    /\ UNCHANGED <<state, config, planet, gt_config, convoy, driver, visualizer>>

CallThrust ==
    \E command \in CallCommands :
        Returns("calculate_thrust", command, 0,
                calculate_thrust(config, command, state.position))

CallFuelConsumption ==
    \E command \in CallCommands, delta_time \in StepDeltaTimes :
        Returns("calculate_fuel_consumption", command, delta_time,
                calculate_fuel_consumption(config, command, delta_time))

\* the gravity term of rocket_update
CallGravity ==
    Returns("calculate_gravity", NullCommand, 0, calculate_gravity(state.position))

\* the gravity term of rocket_update_with_planet
CallPlanetGravity ==
    Returns("planet_gravity", NullCommand, 0, PlanetGravity(state, planet))

\* the drag term of rocket_update
CallDrag ==
    Returns("calculate_drag", NullCommand, 0, calculate_drag(state, config))

\* the drag term of rocket_update_with_planet
CallPlanetDrag ==
    Returns("planet_drag", NullCommand, 0, PlanetDrag(state, config, planet))

CallPredictOrbit ==
    Returns("predict_orbit", NullCommand, 0, predict_orbit(state, planet))

CallGravityTurn ==
    \E target \in TargetAltitudes :
        /\ last.op = "construct"
        /\ gt_config' = gravity_turn_for_orbit(planet, target)
        /\ ret' = gt_config'
        /\ last' = Call("gravity_turn_for_orbit", NullCommand, 0, state)
        /\ UNCHANGED <<state, config, planet, convoy, driver, visualizer>>

CallOptimalPitch ==
    /\ last.op \in {"construct", "gravity_turn_for_orbit"}
    /\ ret' = calculate_optimal_pitch(state, planet, gt_config)
    /\ last' = Call("calculate_optimal_pitch", NullCommand, 0, state)
    /\ UNCHANGED <<state, config, planet, gt_config, convoy, driver, visualizer>>

NextCall ==
    \/ CallThrust
    \/ CallFuelConsumption
    \/ CallGravity
    \/ CallPlanetGravity
    \/ CallDrag
    \/ CallPlanetDrag
    \/ CallPredictOrbit
    \/ CallGravityTurn
    \/ CallOptimalPitch

SpecCall == InitCall /\ [][NextCall]_vars

-----------------------------------------------------------------------------
(* A driver that flies two vehicles, each with its own RocketState, and      *)
(* passes the same RocketConfig and PlanetConfig to every call.              *)

Vehicles == {1, 2}

\* step calls a vehicle of the fleet receives
MaxCalls == 2

\* where vehicle 1 and vehicle 2 start: in the atmosphere, and above it
FleetPositions == << Vec(EARTH_RADIUS + 30, 0, 0), Vec(0, 0, EARTH_RADIUS + 60) >>

\* full thrust up, and over-throttle down
FleetCommands ==
    { Command(<<10, 10>>, 2, 0, 0, 0),
      Command(<<20, 20, 20>>, 3, 1800, 0, 0) }

StepFunctions == {"rocket_update", "rocket_update_with_planet"}

\* the state a step function leaves in the RocketState it is given
StepOf(op, vehicle, cfg, command, pl, delta_time) ==
    IF op = "rocket_update"
    THEN rocket_update(vehicle, cfg, command, delta_time)
    ELSE rocket_update_with_planet(vehicle, cfg, command, pl, delta_time)

\* mutant: the step keeps the simulated time in one clock shared by the fleet
FleetStep_shared_clock(vehicles, i, op, cfg, command, pl, delta_time) ==
    LET stepped == StepOf(op, vehicles[i], cfg, command, pl, delta_time)
    IN  [j \in Vehicles |->
            IF j = i THEN stepped ELSE [vehicles[j] EXCEPT !.time = stepped.time]]

\* a step call on vehicle i: the function writes through its RocketState
\* pointer and nowhere else
FleetStep(vehicles, i, op, cfg, command, pl, delta_time) ==
    [vehicles EXCEPT ![i] = StepOf(op, vehicles[i], cfg, command, pl, delta_time)]

InitFleet ==
    /\ config \in Configs
    /\ planet \in Planets
    /\ fleet = [i \in Vehicles |-> rocket_init(config, FleetPositions[i])]
    /\ log = [i \in Vehicles |-> [start |-> fleet[i], calls |-> << >>]]
    /\ state = fleet[1]
    /\ last = Call("rocket_init", NullCommand, 0, state)
    /\ ret = NoValue
    /\ gt_config = gravity_turn_off
    /\ driver = NoDriver
    /\ Headless

FleetUpdate ==
    \E i \in Vehicles, op \in StepFunctions, command \in FleetCommands :
        /\ Len(log[i].calls) < MaxCalls
        /\ fleet' = FleetStep(fleet, i, op, config, command, planet, SCALE)
        /\ log' = [log EXCEPT ![i].calls =
                       Append(@, [op |-> op, command |-> command, delta_time |-> SCALE])]
        /\ UNCHANGED <<state, config, planet, last, guidance, driver, visualizer>>

NextFleet == FleetUpdate

SpecFleet == InitFleet /\ [][NextFleet]_vars

-----------------------------------------------------------------------------
(* The launch of test_physics.c: main() builds the vehicle, then calls        *)
(* rocket_update in a loop it leaves on in_orbit, on landed or crashed, or    *)
(* when total_time reaches the limit.                                         *)

\* the RocketConfig of test_physics.c: four engines of 500 kN and 250 kg/s
TestRocket ==
    [mass_empty |-> Dec[5000, 0], mass_fuel |-> Dec[15000, 0],
     mass_fuel_max |-> Dec[15000, 0],
     engines |-> [i \in 1..4 |-> Engine(Dec[500000, 0], Dec[250, 0], TRUE)],
     engine_count |-> 4, drag_coefficient |-> Dec[5, -1],
     cross_section |-> Dec[10, 0]]

\* dt and the limit of the loop condition total_time < 600.0
LaunchDeltaTime == Dec[1, -1]
TimeLimit == Dec[600, 0]

InitLaunch ==
    /\ config = TestRocket
    /\ planet = planet_earth_default_dec
    /\ state = rocket_init_dec(config,
                   spherical_to_cartesian_dec(Dec[45, 0], Dec[63, 0], Dec[100, 0]))
    /\ last = Call("rocket_init", NullCommand, Zero, state)
    /\ driver = [command |-> Command([i \in 1..4 |-> One], 4, Zero, Zero, Zero),
                 total_time |-> Zero,
                 pc |-> "loop"]
    /\ Headless
    /\ ret = NoValue
    /\ gt_config = gravity_turn_off
    /\ fleet = << >>
    /\ log = << >>

\* the loop condition of main()
LoopCondition ==
    DLt(driver.total_time, TimeLimit) /\ ~state.landed /\ ~state.crashed

\* one pass through the loop body: the step, the clock, the throttles cut once
\* the tank is empty, and the two breaks
LaunchStep ==
    /\ driver.pc = "loop"
    /\ LoopCondition
    /\ state' = rocket_update_dec(state, config, driver.command, LaunchDeltaTime)
    /\ last' = Call("rocket_update", driver.command, LaunchDeltaTime, state)
    /\ driver' =
           [command |->
                [driver.command EXCEPT !.engine_throttle =
                    IF state'.fuel_remaining.m <= 0
                    THEN [i \in 1..driver.command.engine_count |-> Zero]
                    ELSE @],
            total_time |-> DAdd[driver.total_time, LaunchDeltaTime],
            pc |-> IF state'.in_orbit \/ state'.landed \/ state'.crashed
                   THEN "break" ELSE "loop"]
    /\ UNCHANGED <<config, planet, guidance, convoy, visualizer>>

\* the loop condition fails: main() goes on to its final report
LoopExit ==
    /\ driver.pc = "loop"
    /\ ~LoopCondition
    /\ driver' = [driver EXCEPT !.pc = "exit"]
    /\ UNCHANGED <<state, config, planet, last, guidance, convoy, visualizer>>

NextLaunch == LaunchStep \/ LoopExit

SpecLaunch == InitLaunch /\ [][NextLaunch]_vars

-----------------------------------------------------------------------------
(* One rocket_update_with_planet step from a circular orbit: the state is    *)
(* filled in above the atmosphere with the velocity of                        *)
(* orbital_velocity_at_altitude, perpendicular to the position.               *)

\* the Earth, and the Moon without an atmosphere
OrbitPlanets ==
    { planet_earth_default_dec,
      planet_create(Dec[17374, 2], Dec[7342, 19], Zero, Zero, One) }

\* the test vehicle with its tank empty and full
OrbitConfigs == { [TestRocket EXCEPT !.mass_fuel = fuel] : fuel \in {Zero, Dec[15000, 0]} }

\* altitudes of 105, 110, 200, 400 and 2000 km
OrbitAltitudes == { Dec[105, 3], Dec[110, 3], Dec[200, 3], Dec[400, 3], Dec[2000, 3] }

\* time steps of 0.1 s, 1 s and 10 s
OrbitDeltaTimes == { Dec[1, -1], One, Dec[10, 0] }

\* pairs of perpendicular unit vectors: where the vehicle is, and where it flies
Frames ==
    { << Vec(One, Zero, Zero), Vec(Zero, One, Zero) >>,
      << Vec(Zero, One, Zero), Vec(Zero, Zero, One) >>,
      << Vec(Zero, Zero, One), Vec(One, Zero, Zero) >>,
      << Vec(One, Zero, Zero), Vec(Zero, Zero, Dec[-1, 0]) >>,
      << Vec(Dec[6, -1], Dec[8, -1], Zero), Vec(Dec[-8, -1], Dec[6, -1], Zero) >>,
      << Vec(Dec[6, -1], Dec[8, -1], Zero), Vec(Zero, Zero, One) >> }

\* the NULL command next to commands in decimal floating point
NullCommand_dec == [NullCommand EXCEPT !.pitch = Zero, !.yaw = Zero, !.roll = Zero]

\* coasting: no command, or every throttle at zero
CoastCommands ==
    { NullCommand_dec, Command([i \in 1..4 |-> Zero], 4, Zero, Zero, Zero) }

\* a RocketState on the circular orbit of an altitude
CircularOrbit(cfg, pl, frame, altitude) ==
    Only({ [position |-> position,
            velocity |-> velocity,
            acceleration |-> ZeroVec_dec,
            mass_current |-> DAdd[cfg.mass_empty, cfg.mass_fuel],
            fuel_remaining |-> cfg.mass_fuel,
            altitude |-> DSub[vector_magnitude_dec(position), pl.radius],
            speed |-> vector_magnitude_dec(velocity),
            in_orbit |-> FALSE,
            landed |-> FALSE,
            crashed |-> FALSE,
            time |-> Zero] :
           position \in {vector_scale_dec(frame[1], DAdd[pl.radius, altitude])},
           velocity \in {vector_scale_dec(frame[2],
                             orbital_velocity_at_altitude_dec(pl, altitude))} })

InitOrbit ==
    /\ config \in OrbitConfigs
    /\ planet \in OrbitPlanets
    /\ \E frame \in Frames, altitude \in OrbitAltitudes :
          /\ state = CircularOrbit(config, planet, frame, altitude)
          /\ last = Call("construct", NullCommand_dec, Zero, state)
    /\ SingleVehicle

OrbitStep ==
    \E command \in CoastCommands, delta_time \in OrbitDeltaTimes :
        /\ last.op = "construct"
        /\ state' = rocket_update_with_planet_dec(state, config, command, planet,
                                                  delta_time)
        /\ last' = Call("rocket_update_with_planet", command, delta_time, state)
        /\ UNCHANGED <<config, planet, guidance, convoy, driver, visualizer>>

NextOrbit == OrbitStep

SpecOrbit == InitOrbit /\ [][NextOrbit]_vars

-----------------------------------------------------------------------------
(* Properties.  last.pre is the state a call was given, state the one it left *)

IsStepCall == last.op \in {"rocket_update", "rocket_update_with_planet"}

PreTerminal == last.pre.landed \/ last.pre.crashed

\* the radius the last call measured the ground against
CallRadius == IF last.op = "rocket_update" THEN EARTH_RADIUS ELSE planet.radius

\* C1: a step call on a state that is already landed or crashed leaves every
\* field of the RocketState as it was, whatever the command and delta_time.
C1_TerminalIdempotence == (IsStepCall /\ PreTerminal) => state = last.pre

\* a step call with thrust commanded was made on a crashed state
C1_Witness ==
    /\ last.op = "rocket_update_with_planet"
    /\ last.pre.crashed
    /\ last.delta_time > 0
    /\ calculate_thrust(config, last.command, last.pre.position) # ZeroVec

\* C2 (as claimed): after every step call fuel_remaining is at most what it was
\* before the call, and it is never negative.
C2_MonotonicFuel ==
    /\ state.fuel_remaining >= 0
    /\ IsStepCall => state.fuel_remaining <= last.pre.fuel_remaining

\* C3: in the state rocket_init returns and after every step call, mass_current
\* equals config.mass_empty + fuel_remaining.
C3_MassIsEmptyPlusFuel ==
    state.mass_current = config.mass_empty + state.fuel_remaining

\* a step consumed more fuel than was left, so that fuel_remaining was clamped
C3_Witness ==
    /\ IsStepCall
    /\ ~PreTerminal
    /\ last.pre.fuel_remaining > 0
    /\ calculate_fuel_consumption(config, last.command, last.delta_time)
          > last.pre.fuel_remaining
    /\ state.fuel_remaining = 0

\* C4 (as claimed): fuel_remaining lies in [0, config.mass_fuel_max] in every
\* state reachable from rocket_init.
C4_FuelWithinTank ==
    state.fuel_remaining >= 0 /\ state.fuel_remaining <= config.mass_fuel_max

\* the case of C5: a step without thrust from a non-terminal state whose
\* |position| is exactly the radius
C5_Case ==
    /\ IsStepCall
    /\ ~PreTerminal
    /\ vector_magnitude(last.pre.position) = CallRadius
    /\ calculate_thrust(config, last.command, last.pre.position) = ZeroVec

\* C5 (as claimed): such a step ends landed and not crashed when the state's
\* speed was 4.9, and crashed and not landed when it was 5.1.
C5_ClassifiedByPreStepSpeed ==
    C5_Case =>
        /\ last.pre.speed = 49 => (state.landed /\ ~state.crashed)
        /\ last.pre.speed = 51 => (state.crashed /\ ~state.landed)

\* C5 (amended): such a step, when its integrated position is still at or below
\* the radius, ends landed and not crashed when the speed after integration is
\* 4.9, and crashed and not landed when it is 5.1; when it carries the vehicle
\* above the radius it sets neither flag.
C5_ClassifiedByIntegratedSpeed ==
    C5_Case =>
        IF vector_magnitude(state.position) <= CallRadius
        THEN /\ state.speed = 49 => (state.landed /\ ~state.crashed)
             /\ state.speed = 51 => (state.crashed /\ ~state.landed)
        ELSE ~state.landed /\ ~state.crashed

\* a descent at 4.9 from exactly the radius, over a positive time step, landed
C5_Witness ==
    /\ C5_Case
    /\ last.delta_time > 0
    /\ last.pre.speed = 49
    /\ state.speed = 49
    /\ state.landed /\ ~state.crashed

\* C6 (as claimed): in_orbit is never true while landed or crashed is true.
C6_NoOrbitOnTheGround == ~(state.in_orbit /\ (state.landed \/ state.crashed))

\* C7: landed and crashed are never both true, and a call never clears either.
C7_ExclusiveAndLatched ==
    /\ ~(state.landed /\ state.crashed)
    /\ last.pre.landed => state.landed
    /\ last.pre.crashed => state.crashed

\* a step call was made on a landed state, which is still landed and not crashed
C7_Witness == IsStepCall /\ last.pre.landed /\ state.landed /\ ~state.crashed

\* C8: whenever landed or crashed is true, velocity and acceleration are zero.
C8_GroundedIsAtRest ==
    (state.landed \/ state.crashed) =>
        (state.velocity = ZeroVec /\ state.acceleration = ZeroVec)

\* a vehicle that was moving and accelerating hit the ground
C8_Witness ==
    /\ IsStepCall
    /\ ~PreTerminal
    /\ state.crashed
    /\ last.pre.velocity # ZeroVec
    /\ last.pre.acceleration # ZeroVec

\* C9 (as claimed): rocket_update leaves the state that
\* rocket_update_with_planet leaves with planet_earth_default().
C9_OneStateMachine ==
    last.op = "rocket_update" =>
        state = rocket_update_with_planet(last.pre, config, last.command,
                                          planet_earth_default, last.delta_time)

\* what a step call computes from the state it was given
StepForce ==
    LET thrust_force == calculate_thrust(config, last.command, last.pre.position)
        field_force ==
            IF last.op = "rocket_update"
            THEN vector_add(calculate_gravity(last.pre.position),
                            calculate_drag(last.pre, config))
            ELSE vector_add(PlanetGravity(last.pre, planet),
                            PlanetDrag(last.pre, config, planet))
    IN  vector_add(field_force, thrust_force)

StepAcceleration ==
    IF last.pre.mass_current > 0
    THEN vector_scale_inv(StepForce, last.pre.mass_current)
    ELSE ZeroVec

StepVelocity ==
    vector_add(last.pre.velocity, vector_scale(StepAcceleration, last.delta_time))

StepPosition ==
    vector_add(last.pre.position, vector_scale(StepVelocity, last.delta_time))

StepFuel ==
    LET reduced == last.pre.fuel_remaining
                   - calculate_fuel_consumption(config, last.command, last.delta_time)
    IN  IF reduced < 0 THEN 0 ELSE reduced

\* the updates every step from a non-terminal state stores
StepCommonUpdates ==
    /\ state.position = StepPosition
    /\ state.speed = vector_magnitude(StepVelocity)
    /\ state.fuel_remaining = StepFuel
    /\ state.mass_current = config.mass_empty + StepFuel
    /\ state.altitude = vector_magnitude(StepPosition) - CallRadius

\* C10 (as claimed): a step call either applies all of its updates, time
\* advanced by delta_time among them, or, on a landed or crashed state, none.
C10_AllOrNothing ==
    IsStepCall =>
        IF PreTerminal THEN state = last.pre
        ELSE /\ StepCommonUpdates
             /\ state.acceleration = StepAcceleration
             /\ state.velocity = StepVelocity
             /\ state.time = last.pre.time + last.delta_time

\* C10 (amended): a step call on a landed or crashed state changes nothing; every
\* other step call stores position, speed, fuel_remaining, mass_current and
\* altitude, and then either, off the ground, stores acceleration and velocity
\* and advances time by delta_time, or, on ground contact, zeroes acceleration
\* and velocity and leaves time and in_orbit as they were.
C10_AllOrGroundContact ==
    IsStepCall =>
        IF PreTerminal THEN state = last.pre
        ELSE /\ StepCommonUpdates
             /\ IF vector_magnitude(StepPosition) <= CallRadius
                THEN /\ state.acceleration = ZeroVec
                     /\ state.velocity = ZeroVec
                     /\ state.time = last.pre.time
                     /\ state.in_orbit = last.pre.in_orbit
                     /\ state.landed \/ state.crashed
                ELSE /\ state.acceleration = StepAcceleration
                     /\ state.velocity = StepVelocity
                     /\ state.time = last.pre.time + last.delta_time
                     /\ ~state.landed /\ ~state.crashed

\* a step that burnt fuel over a positive time step ended on the ground with the
\* clock where it was
C10_Witness ==
    /\ IsStepCall
    /\ ~PreTerminal
    /\ last.delta_time > 0
    /\ state.crashed
    /\ state.fuel_remaining < last.pre.fuel_remaining
    /\ state.position # last.pre.position
    /\ state.time = last.pre.time

-----------------------------------------------------------------------------
(* Thrust frame, guidance and independence *)

OnPolarAxis(position) == position.x = 0 /\ position.y = 0 /\ position.z # 0

\* the summed thrust magnitude a command asks of the engines
CommandedThrust(command) ==
    IF command.is_null \/ command.throttle_null THEN 0
    ELSE ThrustSum(config, command, EngineLoopBound(config, command))

\* C11: for a position on the global Z axis and a command whose summed thrust
\* magnitude is positive, calculate_thrust returns a non-zero vector, at every
\* pitch.
C11_PoleFallback ==
    (/\ last.op = "calculate_thrust"
     /\ OnPolarAxis(last.pre.position)
     /\ CommandedThrust(last.command) > 0) => ret # ZeroVec

\* calculate_thrust was called on the polar axis with the thrust pitched 90
\* degrees, where only the east axis carries it
C11_Witness ==
    /\ last.op = "calculate_thrust"
    /\ OnPolarAxis(last.pre.position)
    /\ CommandedThrust(last.command) > 0
    /\ last.command.pitch = 90 * SCALE
    /\ ret.z = 0
    /\ ret # ZeroVec

\* the pitch calculate_optimal_pitch returns at an altitude
PitchAt(altitude) ==
    calculate_optimal_pitch([last.pre EXCEPT !.altitude = altitude], planet, gt_config)

\* C12 (as claimed): with a GravityTurnConfig that gravity_turn_for_orbit
\* produced, calculate_optimal_pitch returns 0 at altitude = turn_start_alt, 90
\* at altitude >= turn_end_alt, and no less than at any lower altitude of the
\* ramp.
C12_PitchRamp ==
    (last.op = "calculate_optimal_pitch" /\ gt_config.auto_pitch) =>
        /\ last.pre.altitude = gt_config.turn_start_alt => ret = 0
        /\ last.pre.altitude >= gt_config.turn_end_alt => ret = 90 * SCALE
        /\ \A lower \in CallHeights :
              (gt_config.turn_start_alt <= lower /\ lower <= last.pre.altitude)
                  => PitchAt(lower) <= ret

\* the state each vehicle has when its own calls are made on it alone
RECURSIVE Alone(_, _, _)
Alone(vehicle, calls, n) ==
    IF n = 0 THEN vehicle
    ELSE StepOf(calls[n].op, Alone(vehicle, calls, n - 1), config,
                calls[n].command, planet, calls[n].delta_time)

YawRolls == { <<0, 0>>, <<-900, 1800>> }

\* C14: a step call leaves the state that the same call leaves with any other
\* yaw and roll in its command.
C14_YawRollIgnored ==
    (IsStepCall /\ ~last.command.is_null) =>
        \A yr \in YawRolls :
            state = StepOf(last.op, last.pre, config,
                           [last.command EXCEPT !.yaw = yr[1], !.roll = yr[2]],
                           planet, last.delta_time)

\* a step with thrust pitched 45 degrees and non-zero yaw and roll moved the
\* vehicle
C14_Witness ==
    /\ IsStepCall
    /\ ~PreTerminal
    /\ last.command.yaw # 0 /\ last.command.roll # 0
    /\ last.delta_time > 0
    /\ calculate_thrust(config, last.command, last.pre.position) # ZeroVec
    /\ state.position # last.pre.position

-----------------------------------------------------------------------------
(* Engine counts, orbit prediction and the boundaries of the force model *)

\* the throttle of engine i: its entry of the throttle array, zero without one
ThrottleOrZero(command, i) ==
    IF command.is_null \/ command.throttle_null \/ i > command.engine_count
    THEN 0 ELSE command.engine_throttle[i]

\* thrust and fuel summed over every engine of the vehicle
RECURSIVE ExpectedThrust(_, _)
ExpectedThrust(command, i) ==
    IF i = 0 THEN 0
    ELSE ExpectedThrust(command, i - 1)
         + (IF config.engines[i].is_active
            THEN FMul(config.engines[i].thrust, ThrottleOrZero(command, i))
            ELSE 0)

RECURSIVE ExpectedConsumption(_, _, _)
ExpectedConsumption(command, delta_time, i) ==
    IF i = 0 THEN 0
    ELSE ExpectedConsumption(command, delta_time, i - 1)
         + (IF config.engines[i].is_active
            THEN FMul(FMul(config.engines[i].fuel_consumption,
                           ThrottleOrZero(command, i)), delta_time)
            ELSE 0)

\* a vehicle with one active engine of the given thrust, and full throttle on it
SingleEngine(thrust) == RocketConfig(20, 20, 20, << Engine(thrust, 10, TRUE) >>)
FullThrottle(pitch) == Command(<< SCALE >>, 1, pitch, 0, 0)

\* C16: thrust and fuel consumption are what the vehicle's active engines give
\* with the throttle entries they have and zero throttle for the engines without
\* one; entries beyond the engine list change nothing; a null command or a null
\* throttle array gives zero thrust and zero consumption.
C16_CountMismatchBounded ==
    /\ last.op = "calculate_thrust" =>
          /\ ret = calculate_thrust(
                       SingleEngine(ExpectedThrust(last.command, config.engine_count)),
                       FullThrottle(last.command.pitch), last.pre.position)
          /\ (last.command.is_null \/ last.command.throttle_null) => ret = ZeroVec
    /\ last.op = "calculate_fuel_consumption" =>
          /\ ret = ExpectedConsumption(last.command, last.delta_time,
                                       config.engine_count)
          /\ (last.command.is_null \/ last.command.throttle_null) => ret = 0

\* thrust was computed from three throttle entries for two engines, one of them
\* inactive
C16_Witness ==
    /\ last.op = "calculate_thrust"
    /\ last.command.engine_count > config.engine_count
    /\ \E i \in 1..config.engine_count : ~config.engines[i].is_active
    /\ ret # ZeroVec

\* the specific orbital energy v^2 / 2 - mu / r of the state predict_orbit was
\* given: the semi-major axis is positive exactly when it is negative
OrbitEnergy ==
    FDiv(FMul(last.pre.speed, last.pre.speed), 2 * SCALE)
    - FDiv(FMul(G_CONSTANT, planet.mass), vector_magnitude(last.pre.position))

\* C17: predict_orbit reports is_stable exactly when eccentricity < 1 and
\* periapsis > atmosphere_height; when the eccentricity is at least 1 or the
\* semi-major axis is not positive it reports apoapsis -1, periapsis = altitude
\* and is_stable = false.
C17_StableIffBoundAndClear ==
    last.op = "predict_orbit" =>
        /\ ret.is_stable = (ret.eccentricity < SCALE
                            /\ ret.periapsis > planet.atmosphere_height)
        /\ (ret.eccentricity >= SCALE \/ OrbitEnergy >= 0) =>
              /\ ret.apoapsis = -SCALE
              /\ ret.periapsis = last.pre.altitude
              /\ ~ret.is_stable

\* an escape trajectory from above the atmosphere: the periapsis reported is the
\* altitude, higher than the atmosphere, and the orbit is not stable
C17_Witness ==
    /\ last.op = "predict_orbit"
    /\ OrbitEnergy > 0
    /\ last.pre.altitude > planet.atmosphere_height
    /\ ret.periapsis = last.pre.altitude
    /\ ~ret.is_stable

\* the radius and the atmosphere height a force term measures against
ForceRadius == IF last.op = "calculate_gravity" THEN EARTH_RADIUS ELSE planet.radius
ForceAtmosphere ==
    IF last.op = "calculate_drag" THEN EARTH_ATMOSPHERE ELSE planet.atmosphere_height

\* C19 (as claimed): the gravity term of either step function is zero exactly
\* when |position| is less than the radius, and points to the centre from the
\* radius upwards.
C19_GravityBoundary ==
    last.op \in {"calculate_gravity", "planet_gravity"} =>
        LET d == vector_magnitude(last.pre.position)
        IN  /\ d < ForceRadius <=> ret = ZeroVec
            /\ d >= ForceRadius =>
                  vector_dot(ret, last.pre.position) < 0

\* C20 (as claimed): the drag term of either step function is zero at altitude
\* <= 0 and at altitude >= atmosphere_height, and not zero only at a positive
\* speed.
C20_DragWindow ==
    last.op \in {"calculate_drag", "planet_drag"} =>
        /\ (last.pre.altitude <= 0 \/ last.pre.altitude >= ForceAtmosphere)
              => ret = ZeroVec
        /\ ret # ZeroVec => last.pre.speed > 0

-----------------------------------------------------------------------------
(* The reference launch and the circular orbit, with the real constants *)

\* main() has left its loop, through a break or through the loop condition
LoopLeft == driver.pc \in {"break", "exit"}

\* C15: the reference launch of test_physics.c (5000 kg empty, 15000 kg of
\* fuel, four engines of 500 kN and 250 kg/s at full throttle, pitch 0, launched
\* 100 m above the surface, delta_time 0.1, throttles cut once the tank is
\* empty) reaches in_orbit, landed or crashed within 600 s of simulated time:
\* when the driver loop has ended, one of the three flags is set.
C15_LaunchEndsOnFlag ==
    LoopLeft => state.in_orbit \/ state.landed \/ state.crashed

\* |a - b| <= tolerance
Near(a, b, tolerance) ==
    Only({ DLe(Dec[Abs(d.m), d.e], tolerance) : d \in {DSub[a, b]} })

\* state s coasts on a circular orbit of planet pl above its atmosphere: the
\* velocity is perpendicular to the position and has the circular speed of the
\* altitude (both to one part in a million)
OnCircularOrbit(s, pl) ==
    /\ DLt(pl.atmosphere_height, s.altitude)
    /\ DLt(Zero, s.altitude)
    /\ Near(vector_dot_dec(s.position, s.velocity), Zero,
            DMul[DMul[vector_magnitude_dec(s.position), s.speed], Dec[1, -6]])
    /\ Near(s.speed, orbital_velocity_at_altitude_dec(pl, s.altitude),
            DMul[s.speed, Dec[1, -6]])

\* the command gives no thrust
Coasting(command) ==
    \/ command.is_null
    \/ \A i \in 1..Len(command.engine_throttle) : command.engine_throttle[i] = Zero

\* the eccentricity a step of delta_time may leave on a circular orbit:
\* 0.01 per second of step
EccentricityTolerance(delta_time) == DMul[Dec[1, -2], delta_time]

\* C18: in vacuum (no drag, no thrust), a state above the atmosphere whose
\* velocity is the circular-orbit velocity of its altitude and perpendicular to
\* its position has, after one rocket_update_with_planet step, an eccentricity
\* of about 0 (within a tolerance proportional to delta_time) and
\* in_orbit = true.
C18_CircularOrbitKept ==
    (/\ last.op = "rocket_update_with_planet"
     /\ OnCircularOrbit(last.pre, planet)
     /\ Coasting(last.command))
    => /\ state.in_orbit
       /\ DLe(predict_orbit_dec(state, planet).eccentricity,
              EccentricityTolerance(last.delta_time))

-----------------------------------------------------------------------------
(* The integrator, one field at a time *)

\* C21: in every state reachable from rocket_init by step calls, the state a
\* ground-contact step leaves included, speed equals the magnitude of velocity.
C21_SpeedIsMagnitude == state.speed = vector_magnitude(state.velocity)

\* the last call was a step on a non-terminal state that stayed off the ground
StepOffGround ==
    /\ IsStepCall
    /\ ~PreTerminal
    /\ ~state.landed /\ ~state.crashed

\* C22: on every step from a non-terminal state that does not end in ground
\* contact, the acceleration is the total force on the state the step was given
\* divided by the mass it was given; the new velocity is the old velocity plus
\* acceleration * delta_time; the new position is the old position plus the NEW
\* velocity * delta_time; fuel and mass are reduced only after both.
C22_IntegrationOrder ==
    StepOffGround =>
        /\ state.acceleration =
              (IF last.pre.mass_current > 0
               THEN vector_scale_inv(StepForce, last.pre.mass_current)
               ELSE ZeroVec)
        /\ state.velocity =
              vector_add(last.pre.velocity,
                         vector_scale(state.acceleration, last.delta_time))
        /\ state.position =
              vector_add(last.pre.position,
                         vector_scale(state.velocity, last.delta_time))
        /\ state.fuel_remaining = StepFuel
        /\ state.mass_current = config.mass_empty + StepFuel

\* a step off the ground that burnt fuel while it accelerated a moving vehicle:
\* the mass after the step is not the mass the acceleration was computed with,
\* and the position moved by the new velocity, not by the old one
C22_Witness ==
    /\ StepOffGround
    /\ last.delta_time > 0
    /\ state.mass_current < last.pre.mass_current
    /\ state.mass_current > 0
    /\ vector_scale_inv(StepForce, state.mass_current) # state.acceleration
    /\ last.pre.velocity # ZeroVec
    /\ state.velocity # last.pre.velocity
    /\ state.position #
          vector_add(last.pre.position,
                     vector_scale(last.pre.velocity, last.delta_time))

\* C23: in_orbit is recomputed, not latched: after every
\* rocket_update_with_planet step that does not end in ground contact, in_orbit
\* is the is_stable verdict of predict_orbit on the state the step produced,
\* also when in_orbit was true before the step and the verdict is false.
C23_OrbitFlagRecomputed ==
    (StepOffGround /\ last.op = "rocket_update_with_planet") =>
        state.in_orbit = predict_orbit(state, planet).is_stable

\* a vehicle that a step had put in orbit lost the flag on a later step
C23_Witness ==
    /\ StepOffGround
    /\ last.op = "rocket_update_with_planet"
    /\ last.pre.in_orbit
    /\ ~state.in_orbit

\* the last call was a step on a non-terminal state whose integrated position
\* is at or below the radius the call measures against
StepToGround ==
    /\ IsStepCall
    /\ ~PreTerminal
    /\ vector_magnitude(StepPosition) <= CallRadius

\* C24: a step whose position after integration is at or below the radius sets
\* landed exactly when the speed after integration is strictly below 5.0 and
\* crashed otherwise (speed exactly 5.0 gives crashed); it zeroes velocity and
\* acceleration, and it leaves in_orbit at the value it had before the step.
C24_GroundContactTransition ==
    StepToGround =>
        /\ state.landed <=> vector_magnitude(StepVelocity) < 5 * SCALE
        /\ state.crashed <=> vector_magnitude(StepVelocity) >= 5 * SCALE
        /\ state.velocity = ZeroVec
        /\ state.acceleration = ZeroVec
        /\ state.in_orbit = last.pre.in_orbit

\* a vehicle flagged in_orbit met the ground at exactly 5.0: crashed, at rest,
\* the flag still set
C24_Witness ==
    /\ StepToGround
    /\ vector_magnitude(StepVelocity) = 5 * SCALE
    /\ last.pre.velocity # ZeroVec
    /\ last.pre.in_orbit
    /\ state.crashed /\ ~state.landed
    /\ state.in_orbit

\* the thrust the last step call computed from its command
StepThrust == calculate_thrust(config, last.command, last.pre.position)

\* the last call was a step on a non-terminal vehicle with an empty tank
StepOnEmptyTank ==
    /\ IsStepCall
    /\ ~PreTerminal
    /\ last.pre.fuel_remaining = 0

\* C25: thrust does not depend on the fuel left: a step taken with
\* fuel_remaining = 0 moves the vehicle with the thrust its command asks of the
\* active engines, as a step with fuel in the tank does; the position and the
\* speed it stores, and off the ground the acceleration, are those of the full
\* force, thrust included.
C25_ThrustWithoutFuel ==
    StepOnEmptyTank =>
        /\ state.position = StepPosition
        /\ state.speed = vector_magnitude(StepVelocity)
        /\ StepOffGround => state.acceleration = StepAcceleration

\* a step off the ground with an empty tank and a throttle above zero on an
\* active engine: the acceleration it stored is not the one of the coasting
\* vehicle
C25_Witness ==
    /\ StepOnEmptyTank
    /\ StepOffGround
    /\ last.delta_time > 0
    /\ \E i \in 1..config.engine_count :
          config.engines[i].is_active /\ ThrottleOrZero(last.command, i) > 0
    /\ StepThrust # ZeroVec
    /\ state.acceleration #
          vector_scale_inv(vector_sub(StepForce, StepThrust), last.pre.mass_current)

-----------------------------------------------------------------------------
(* A driver that flies one planet: rocket_init, then only                     *)
(* rocket_update_with_planet, always with the same PlanetConfig.              *)

NextPlanet == UpdateWithPlanet

SpecPlanet == Init /\ [][NextPlanet]_vars

\* C26: in every state reachable by rocket_init followed by any number of
\* rocket_update_with_planet steps with one planet, the initial state and the
\* state of a ground contact included, altitude equals |position| minus the
\* radius of that planet.
C26_AltitudeAboveThePlanet ==
    state.altitude = vector_magnitude(state.position) - planet.radius

-----------------------------------------------------------------------------
(* The visualizer at run time: the socket thread delivers Open, Close, Error  *)
(* and Message events to onMessage; the main thread connects, then loops      *)
(* through handleInput, update (processMessages first) and render, and        *)
(* disconnects when the loop is left.                                         *)

\* events the socket thread may deliver in one run
MaxEvents == 3

\* the variables of the physics, which the visualizer does not have
flight == <<state, config, planet, last, ret, gt_config, fleet, log, driver>>
NoFlight == "none"
Grounded ==
    /\ state = NoFlight
    /\ config = NoFlight
    /\ planet = NoFlight
    /\ last = NoFlight
    /\ ret = NoFlight
    /\ gt_config = NoFlight
    /\ fleet = NoFlight
    /\ log = NoFlight
    /\ driver = NoFlight

\* a position report of rocket r1, 150 m further on each time
Telemetry(n) == [position |-> Vec(150 * n, 0, 0), time |-> n]

\* the texts the server sends: a rocket joins, reports, leaves; a warning whose
\* data lacks the severity; text that is not JSON; a type without a case
Texts ==
    { Text("object", "rocket_joined",
           [rocket_id |-> "r1", name |-> "Vostok", config |-> [name |-> "Vostok-K"]]),
      Text("object", "broadcast",
           [rocket_id |-> "r1", name |-> "Vostok", state |-> Telemetry(1)]),
      Text("object", "rocket_left", [rocket_id |-> "r1", reason |-> "landed"]),
      Text("object", "warning", [rocket_id |-> "r1", warning |-> "low fuel"]),
      Text("malformed", "missing", [text |-> "{"]),
      Text("object", "accepted", [rocket_id |-> "r1"]) }

InitClient ==
    /\ client = WebSocketClient
    /\ ui = UIManager
    /\ sim = SimulationState
    /\ threads = [socket |-> [pc |-> "unstarted", msg |-> nullptr, connected |-> FALSE],
                  main |-> [pc |-> "connect", messages |-> << >>]]
    /\ trace = [events |-> 0, arrived |-> << >>, handled |-> << >>, calls |-> {}]
    /\ Grounded

SocketAt(pc) == threads.socket.pc = pc
MainAt(pc) == threads.main.pc = pc
MayDeliver == SocketAt("idle") /\ trace.events < MaxEvents

\* Application::initNetwork, after the callbacks are set: connect() starts the
\* socket thread, then the main thread logs "Connecting to ..."
Connect ==
    /\ MainAt("connect")
    /\ threads' = [threads EXCEPT !.socket.pc = "idle", !.main.pc = "log"]
    /\ UNCHANGED <<client, ui, sim, trace, flight>>

ConnectingLog ==
    /\ MainAt("log")
    /\ ui' = addLog(ui, <<"Connecting to ", "serverUrl">>, "YELLOW")
    /\ threads' = [threads EXCEPT !.main.pc = "handleInput"]
    /\ UNCHANGED <<client, sim, trace, flight>>

\* case Open: m_connected = true, then sendSubscribe, then the callback
OnOpen ==
    /\ MayDeliver
    /\ client' = [client EXCEPT !.m_connected = TRUE]
    /\ threads' = [threads EXCEPT !.socket.pc = "sendSubscribe"]
    /\ trace' = [trace EXCEPT !.events = @ + 1]
    /\ UNCHANGED <<ui, sim, flight>>

sendSubscribe ==
    /\ SocketAt("sendSubscribe")
    /\ client' = [client EXCEPT !.m_subscribed = TRUE]
    /\ threads' = [threads EXCEPT !.socket.pc = "setConnected",
                                  !.socket.connected = TRUE]
    /\ UNCHANGED <<ui, sim, trace, flight>>

\* case Close: both flags cleared, then the callback
OnClose ==
    /\ MayDeliver
    /\ client' = [client EXCEPT !.m_connected = FALSE, !.m_subscribed = FALSE]
    /\ threads' = [threads EXCEPT !.socket.pc = "setConnected",
                                  !.socket.connected = FALSE]
    /\ trace' = [trace EXCEPT !.events = @ + 1]
    /\ UNCHANGED <<ui, sim, flight>>

\* case Error: m_connected cleared, then the callback
OnError ==
    /\ MayDeliver
    /\ client' = [client EXCEPT !.m_connected = FALSE]
    /\ threads' = [threads EXCEPT !.socket.pc = "setConnected",
                                  !.socket.connected = FALSE]
    /\ trace' = [trace EXCEPT !.events = @ + 1]
    /\ UNCHANGED <<ui, sim, flight>>

\* m_connectionCallback, that is Application::onConnectionChanged, called by
\* onMessage on the thread onMessage runs on: first m_ui->setConnected
onConnectionChanged ==
    /\ SocketAt("setConnected")
    /\ ui' = [ui EXCEPT !.m_connected = threads.socket.connected]
    /\ threads' = [threads EXCEPT !.socket.pc = "addLog"]
    /\ trace' = [trace EXCEPT !.calls =
                    @ \cup {[callback |-> "onConnectionChanged", thread |-> "socket"]}]
    /\ UNCHANGED <<client, sim, flight>>

\* then m_ui->addLog or m_ui->addError
ConnectionLog ==
    /\ SocketAt("addLog")
    /\ ui' = IF threads.socket.connected
             THEN addLog(ui, <<"Connected to server">>, "GREEN")
             ELSE addError(ui, "Disconnected from server")
    /\ threads' = [threads EXCEPT !.socket.pc = "idle"]
    /\ UNCHANGED <<client, sim, trace, flight>>

\* case Message: the text arrives, and onMessage asks for the queue mutex
OnText ==
    /\ MayDeliver
    /\ \E text \in Texts :
          /\ threads' = [threads EXCEPT !.socket.pc = "lock", !.socket.msg = text]
          /\ trace' = [trace EXCEPT !.events = @ + 1,
                                    !.arrived = Append(@, text)]
    /\ UNCHANGED <<client, ui, sim, flight>>

QueueLock ==
    /\ SocketAt("lock")
    /\ client.m_queueMutex = "free"
    /\ client' = [client EXCEPT !.m_queueMutex = "socket"]
    /\ threads' = [threads EXCEPT !.socket.pc = "push"]
    /\ UNCHANGED <<ui, sim, trace, flight>>

\* m_messageQueue.push(msg->str), and the lock_guard goes out of scope
QueuePush ==
    /\ SocketAt("push")
    /\ client' = [client EXCEPT !.m_messageQueue = Append(@, threads.socket.msg),
                                !.m_queueMutex = "free"]
    /\ threads' = [threads EXCEPT !.socket.pc = "idle", !.socket.msg = nullptr]
    /\ UNCHANGED <<ui, sim, trace, flight>>

\* the loop of Application::run: handleInput, then update or, when the window
\* is closed or Escape was pressed, shutdown
HandleInput ==
    /\ MainAt("handleInput")
    /\ \E next \in {"processMessages", "shutdown"} :
          threads' = [threads EXCEPT !.main.pc = next]
    /\ UNCHANGED <<client, ui, sim, trace, flight>>

\* processMessages: under the mutex the queue is swapped with an empty one
ProcessLock ==
    /\ MainAt("processMessages")
    /\ client.m_queueMutex = "free"
    /\ client' = [client EXCEPT !.m_queueMutex = "main"]
    /\ threads' = [threads EXCEPT !.main.pc = "swap"]
    /\ UNCHANGED <<ui, sim, trace, flight>>

\* mutant: the queue is copied, not swapped
ProcessSwap_copies ==
    /\ MainAt("swap")
    /\ client' = [client EXCEPT !.m_queueMutex = "free"]
    /\ threads' = [threads EXCEPT !.main.pc = "handle",
                                  !.main.messages = client.m_messageQueue]
    /\ UNCHANGED <<ui, sim, trace, flight>>

ProcessSwap ==
    /\ MainAt("swap")
    /\ client' = [client EXCEPT !.m_messageQueue = threads.main.messages,
                                !.m_queueMutex = "free"]
    /\ threads' = [threads EXCEPT !.main.pc = "handle",
                                  !.main.messages = client.m_messageQueue]
    /\ UNCHANGED <<ui, sim, trace, flight>>

\* one pass of the while loop: handleMessage(messages.front()), the callback
\* it calls, and messages.pop()
HandleFront ==
    /\ MainAt("handle")
    /\ threads.main.messages # << >>
    /\ LET json == Head(threads.main.messages)
           call == handleMessage(json)
       IN  /\ sim' = StateAfter(sim, call)
           /\ ui' = UIAfter(ui, call)
           /\ trace' = [trace EXCEPT
                  !.handled = Append(@, [json |-> json, outcome |-> call.outcome]),
                  !.calls = IF call.outcome = "callback"
                            THEN @ \cup {[callback |-> call.type, thread |-> "main"]}
                            ELSE @]
    /\ threads' = [threads EXCEPT !.main.messages = Tail(@)]
    /\ UNCHANGED <<client, flight>>

\* the rest of Application::update: m_ui->update() and the scene
UpdateScene ==
    /\ MainAt("handle")
    /\ threads.main.messages = << >>
    /\ threads' = [threads EXCEPT !.main.pc = "render"]
    /\ UNCHANGED <<client, ui, sim, trace, flight>>

\* Application::render draws the scene and the UIManager
Render ==
    /\ MainAt("render")
    /\ threads' = [threads EXCEPT !.main.pc = "handleInput"]
    /\ UNCHANGED <<client, ui, sim, trace, flight>>

\* Application::shutdown: disconnect() stops the socket, which ends its thread
\* once the handler has returned, and clears both flags
disconnect ==
    /\ MainAt("shutdown")
    /\ SocketAt("idle")
    /\ client' = [client EXCEPT !.m_connected = FALSE, !.m_subscribed = FALSE]
    /\ threads' = [threads EXCEPT !.socket.pc = "stopped", !.main.pc = "done"]
    /\ UNCHANGED <<ui, sim, trace, flight>>

NextClient ==
    \/ Connect \/ ConnectingLog
    \/ OnOpen \/ sendSubscribe \/ OnClose \/ OnError
    \/ onConnectionChanged \/ ConnectionLog
    \/ OnText \/ QueueLock \/ QueuePush
    \/ HandleInput \/ ProcessLock \/ ProcessSwap \/ HandleFront
    \/ UpdateScene \/ Render \/ disconnect

SpecClient == InitClient /\ [][NextClient]_vars

(***************************************************************************)
(* The threads of the visualizer                                           *)
(***************************************************************************)

\* the socket thread is inside Application::onConnectionChanged, about to
\* write UIManager::m_connected or UIManager::m_logs
SocketInCallback == threads.socket.pc \in {"setConnected", "addLog"}

\* the main thread is inside Application::update or Application::render
MainInUpdateOrRender ==
    threads.main.pc \in {"processMessages", "swap", "handle", "render"}

\* C27: every callback of the WebSocketClient that changes the SimulationState
\* or the UIManager is called on the main-loop thread, from processMessages,
\* and the socket thread is never inside one while the main loop updates or
\* renders.
C27_CallbacksOnMainLoopThread ==
    /\ \A call \in trace.calls : call.thread = "main"
    /\ ~(SocketInCallback /\ MainInUpdateOrRender)

\* the texts handleMessage was given, in the order it was given them
HandledTexts == [i \in 1..Len(trace.handled) |-> trace.handled[i].json]

\* the texts onMessage received that handleMessage has not been given yet: the
\* local queue of processMessages, then m_messageQueue, then the text onMessage
\* is about to push
WaitingTexts ==
    threads.main.messages \o client.m_messageQueue \o
        (IF threads.socket.pc \in {"lock", "push"} THEN <<threads.socket.msg>> ELSE << >>)

\* a text that is not a JSON object with a "type", or whose data lacks a field
\* of the struct of its type
FailsToDecode(text) ==
    \/ text.json # "object"
    \/ text.type = "missing"
    \/ /\ text.type \in {"broadcast", "rocket_joined", "rocket_left", "warning"}
       /\ \E field \in Fields(text.type) : field \notin DOMAIN text.data

\* C28: processMessages gives handleMessage the texts onMessage received, in
\* the order they arrived and each exactly once, whatever the interleaving of
\* the two threads; a text that fails to parse or decode is dropped, and the
\* texts behind it are handled all the same.
C28_ArrivalOrderExactlyOnce ==
    /\ HandledTexts \o WaitingTexts = trace.arrived
    /\ \A i \in 1..Len(trace.handled) :
          (trace.handled[i].outcome = "dropped") <=> FailsToDecode(trace.handled[i].json)

\* a dropped text was followed by one whose callback ran, and a third text was
\* pushed while processMessages was handling its batch
C28_Witness ==
    /\ \E i, j \in 1..Len(trace.handled) :
          /\ i < j
          /\ trace.handled[i].outcome = "dropped"
          /\ trace.handled[j].outcome = "callback"
    /\ MainAt("handle")
    /\ client.m_messageQueue # << >>

\* C29: in every state of the WebSocketClient, whatever Open, Close, Error
\* and Message events and disconnect calls came before, m_subscribed is true
\* only if m_connected is true.
C29_SubscribedOnlyWhenConnected == client.m_subscribed => client.m_connected

-----------------------------------------------------------------------------
(* A driver of the registry: the operations of SimulationState, called one   *)
(* after the other (each holds m_mutex from its first line to its last) on    *)
(* two rocket ids.  trace keeps the number of calls, the ids added and not    *)
(* removed since, and the last call with the registry it was made on.         *)

MaxOps == 5

RocketIds == {"r1", "r2"}
RocketNames == [r1 |-> "Vostok", r2 |-> "Soyuz"]
RocketConfigs == {[name |-> "Vostok-K"], [name |-> "Soyuz-U"]}
RocketStates == {Telemetry(1), Telemetry(2)}

RegistryCall(op, id, argument, pre, returned) ==
    [op |-> op, id |-> id, argument |-> argument, pre |-> pre, returned |-> returned]

InitRegistry ==
    /\ sim = SimulationState
    /\ trace = [ops |-> 0, added |-> {},
                call |-> RegistryCall("SimulationState", "", nullptr, SimulationState, nullptr)]
    /\ client = NoVisualizer
    /\ threads = NoVisualizer
    /\ ui = NoVisualizer
    /\ Grounded

MayCall == trace.ops < MaxOps

AddRocket ==
    /\ MayCall
    /\ \E id \in RocketIds, announced \in RocketConfigs :
          /\ sim' = addRocket(sim, id, RocketNames[id], announced)
          /\ trace' = [ops |-> trace.ops + 1, added |-> trace.added \cup {id},
                       call |-> RegistryCall("addRocket", id, announced, sim, nullptr)]
    /\ UNCHANGED <<client, threads, ui, flight>>

UpdateRocket ==
    /\ MayCall
    /\ \E id \in RocketIds, report \in RocketStates :
          /\ sim' = updateRocket(sim, id, report)
          /\ trace' = [trace EXCEPT !.ops = @ + 1,
                          !.call = RegistryCall("updateRocket", id, report, sim, nullptr)]
    /\ UNCHANGED <<client, threads, ui, flight>>

RemoveRocket ==
    /\ MayCall
    /\ \E id \in RocketIds :
          /\ sim' = removeRocket(sim, id)
          /\ trace' = [ops |-> trace.ops + 1, added |-> trace.added \ {id},
                       call |-> RegistryCall("removeRocket", id, nullptr, sim, nullptr)]
    /\ UNCHANGED <<client, threads, ui, flight>>

\* Scene::followRocket tracks a rocket, Scene::stopFollowing the empty id
SetTrackedRocket ==
    /\ MayCall
    /\ \E id \in RocketIds \cup {""} :
          /\ sim' = setTrackedRocket(sim, id)
          /\ trace' = [trace EXCEPT !.ops = @ + 1,
                          !.call = RegistryCall("setTrackedRocket", id, nullptr, sim, nullptr)]
    /\ UNCHANGED <<client, threads, ui, flight>>

GetTrackedRocket ==
    /\ MayCall
    /\ trace' = [trace EXCEPT !.ops = @ + 1,
                    !.call = RegistryCall("getTrackedRocket", "", nullptr, sim,
                                          getTrackedRocket(sim))]
    /\ UNCHANGED <<sim, client, threads, ui, flight>>

NextRegistry ==
    \/ AddRocket \/ UpdateRocket \/ RemoveRocket
    \/ SetTrackedRocket \/ GetTrackedRocket

SpecRegistry == InitRegistry /\ [][NextRegistry]_vars

\* the registry the last call was made on
Before == trace.call.pre

\* C30: addRocket with a registered id leaves the registry as it was;
\* updateRocket with an unregistered id leaves it as it was and creates no
\* entry; removeRocket(id) removes the entry of id, keeps the others, and clears
\* the tracked id exactly when it is id; so the rocket count is the number of
\* ids added and not removed since, and getTrackedRocket returns nullptr or a
\* rocket that is registered, never a removed one.
C30_RegistryOperations ==
    /\ (trace.call.op = "addRocket" /\ trace.call.id \in DOMAIN Before.m_rockets)
          => sim = Before
    /\ (trace.call.op = "updateRocket" /\ trace.call.id \notin DOMAIN Before.m_rockets)
          => sim = Before
    /\ trace.call.op = "removeRocket" =>
          /\ DOMAIN sim.m_rockets = DOMAIN Before.m_rockets \ {trace.call.id}
          /\ \A id \in DOMAIN sim.m_rockets : sim.m_rockets[id] = Before.m_rockets[id]
          /\ sim.m_trackedRocketId =
                 IF Before.m_trackedRocketId = trace.call.id
                 THEN "" ELSE Before.m_trackedRocketId
    /\ getRocketCount(sim) = Cardinality(trace.added)
    /\ DOMAIN sim.m_rockets = trace.added
    /\ trace.call.op = "getTrackedRocket" =>
          \/ trace.call.returned = nullptr
          \/ /\ sim.m_trackedRocketId \in trace.added
             /\ trace.call.returned = sim.m_rockets[sim.m_trackedRocketId]
             /\ trace.call.returned.m_id = sim.m_trackedRocketId

\* a rocket was removed, and a rocket that is registered was added again with
\* a configuration other than the one it has
C30_Witness ==
    /\ trace.call.op = "addRocket"
    /\ trace.call.id \in DOMAIN Before.m_rockets
    /\ Before.m_rockets[trace.call.id].m_config # trace.call.argument
    /\ sim.m_colorGenerator > getRocketCount(sim)

====
